---- MODULE Spec2Model ----
(***************************************************************************)
(* Robin Hood hash table of cc4.h (maps): bucket array, insertion with     *)
(* displacement, lookup, backward-shift erase, capacity policy and rehash, *)
(* clone, clear, cleanup, over an explicit heap of buffers.                *)
(*                                                                         *)
(* Abstractions:                                                           *)
(*  - a buffer is  [size, cap, b]  with b a function on 0..cap-1 of        *)
(*    buckets [key, el, probelen];                                         *)
(*  - the key and element bytes of a bucket whose probe length is 0 are    *)
(*    never read by any function of cc4.h (they are indeterminate after    *)
(*    realloc and stale after an erase); the model keeps them as Dead;     *)
(*  - max_load (a double) is a pair <<num, den>> of a dyadic fraction, for *)
(*    which cap * max_load is exact in double arithmetic;                  *)
(*  - a pointer is <<buffer id, byte offset>>; a handle is a buffer id     *)
(*    (0 is &cc4_map_placeholder, -1 is NULL);                               *)
(*  - realloc_( NULL, n ) either fails (input ok = FALSE) or returns the   *)
(*    lowest-numbered block that is not allocated.                         *)
(***************************************************************************)
EXTENDS Integers, Sequences, FiniteSets, TLC

(***************************************************************************)
(* Bounds of the exploration.                                              *)
(***************************************************************************)
\* keys 1..NumKeys are used on a single table
NumKeys == 3
\* keys 1..NumCloneKeys are used when a second table (a clone) exists
NumCloneKeys == 2
\* reserve( n ) is called with n in 0..MaxReserve
MaxReserve == 4
\* cc4_map_min_cap_for_n_els( n, max_load ) is applied to n in 0..MaxN
MaxLayoutSize == 12
MaxGrowReserve == 7
MaxN == 40
\* the iterations of a loop are counted up to MaxIters
MaxIters == 40

Tables == {"m", "c"}
Els == {10, 20}

(***************************************************************************)
(* Program constants.                                                      *)
(***************************************************************************)
\* sizeof( cc4_map_hdr_ty ): two size_t, aligned to max_align_t
HdrSize == 16
\* sizeof( cc4_probelen_ty ), alignof( cc4_probelen_ty ): unsigned int
ProbelenSize == 4
ProbelenAlign == 4
\* CC4_DEFAULT_LOAD 0.75
CC4_DEFAULT_LOAD == <<3, 4>>

PLACEHOLDER == 0
NULLH == -1
NULL == <<-1, 0>>
cc4_dummy_true_ptr == <<-2, 0>>
\* a block that is not allocated (its contents are indeterminate)
FREE == [size |-> -1, cap |-> -1, b |-> <<>>]
Dead == 0

Max(a, b) == IF a > b THEN a ELSE b

RECURSIVE BitAnd(_, _)
BitAnd(a, b) ==
  IF a = 0 \/ b = 0 THEN 0
  ELSE (a % 2) * (b % 2) + 2 * BitAnd(a \div 2, b \div 2)

(***************************************************************************)
(* Layout descriptor.                                                      *)
(***************************************************************************)
\* ( ~size + 1 ) & ( align - 1 ): the distance from size up to the next
\* multiple of align (align a power of two)
\* variant: the bits of size below the alignment, not of its negation
CC4_PADDING_of_size(size, align) == BitAnd(size % align, align - 1)

CC4_PADDING(size, align) == BitAnd((align - (size % align)) % align, align - 1)

CC4_MAP_EL_PADDING(el_size, key_align) == CC4_PADDING(el_size, key_align)

CC4_MAP_KEY_PADDING(el_size, key_size, key_align) ==
  CC4_PADDING(el_size + CC4_MAP_EL_PADDING(el_size, key_align) + key_size, ProbelenAlign)

CC4_MAP_PROBELEN_PADDING(el_size, el_align, key_size, key_align) ==
  CC4_PADDING(
    el_size + CC4_MAP_EL_PADDING(el_size, key_align) + key_size +
    CC4_MAP_KEY_PADDING(el_size, key_size, key_align) + ProbelenSize,
    Max(key_align, Max(el_align, ProbelenAlign)))

\* the uint64_t descriptor, field by field: key size in bits 0..31, the three
\* paddings in bits 32..39, 40..47 and 48..55
cc4_layout(el_size, el_align, key_size, key_align) ==
  [ key_size |-> key_size,
    el_pad   |-> CC4_MAP_EL_PADDING(el_size, key_align),
    key_pad  |-> CC4_MAP_KEY_PADDING(el_size, key_size, key_align),
    pl_pad   |-> CC4_MAP_PROBELEN_PADDING(el_size, el_align, key_size, key_align) ]

CC4_KEY_SIZE(layout) == layout.key_size
CC4_KEY_OFFSET(el_size, layout) == el_size + (layout.el_pad % 256)
CC4_PROBELEN_OFFSET(el_size, layout) ==
  CC4_KEY_OFFSET(el_size, layout) + layout.key_size + (layout.key_pad % 256)
CC4_BUCKET_SIZE(el_size, layout) ==
  CC4_PROBELEN_OFFSET(el_size, layout) + ProbelenSize + (layout.pl_pad % 256)

(***************************************************************************)
(* Configurations: the key type's hash function and max load factor, the   *)
(* element and key layout, and the keys, elements and tables in use.       *)
(***************************************************************************)
Keys == 1..NumKeys

\* hash functions of the key type: a constant one, and one that sends the keys
\* to the last two buckets of an 8-bucket array (6, 6, 7, 7, ...) and apart in
\* a 16-bucket array
HashConst == [k \in Keys |-> 7]
HashClustered == [k \in Keys |-> 6 + (k \div 3) + 8 * (k % 2)]

Loads == {<<1, 4>>, CC4_DEFAULT_LOAD}

Config(hash, load, keys, els, tabs) ==
  [ hash |-> hash, max_load |-> load, keys |-> keys, els |-> els, tabs |-> tabs,
    el_size |-> 4, layout |-> cc4_layout(4, 4, 4, 4) ]

Configs ==
  { Config(h, l, Keys, Els, {"m"}) : h \in {HashConst, HashClustered}, l \in Loads }
  \cup { Config(HashConst, CC4_DEFAULT_LOAD, 1..NumCloneKeys, {10}, Tables) }

VARIABLES
  cfg,    \* the configuration, fixed in Init
  hnd,    \* table name -> handle (the user's container pointer)
  heap,   \* buffer id -> buffer or FREE; heap[PLACEHOLDER] is cc4_map_placeholder
  abs,    \* ghost: table name -> the function from the keys the caller has stored to their elements
  only_inserts, \* ghost: table name -> only successful replacing inserts and gets so far
  last    \* the last API call: its arguments, result and effects

vars == <<cfg, hnd, heap, abs, only_inserts, last>>

(***************************************************************************)
(* Map header, buckets.                                                    *)
(***************************************************************************)
cc4_map_placeholder == [size |-> 0, cap |-> 0, b |-> <<>>]

Bucket(key, el, probelen) == [key |-> key, el |-> el, probelen |-> probelen]
EmptyBucket == Bucket(Dead, Dead, 0)

cc4_map_size(H, cntr) == H[cntr].size
cc4_map_cap(H, cntr) == H[cntr].cap
cc4_map_is_placeholder(H, cntr) == cc4_map_cap(H, cntr) = 0

cc4_map_el(cntr, i, el_size, layout) ==
  <<cntr, HdrSize + CC4_BUCKET_SIZE(el_size, layout) * i>>

\* hash( key ) & ( cap - 1 ) in size_t arithmetic: cap - 1 is all ones when cap is 0
HomeIndex(h, cap) == IF cap = 0 THEN h ELSE BitAnd(h, cap - 1)
NextIndex(i, cap) == IF cap = 0 THEN i + 1 ELSE BitAnd(i + 1, cap - 1)

\* *cc4_map_probelen( cntr, i ): a read outside the bucket array is undefined
\* behaviour; it is counted by the callers (reads) and yields 0 here
Probelen(t, i) == IF i \in DOMAIN t.b THEN t.b[i].probelen ELSE 0

\* cmpr( key_a, key_b ) of the key type
cmpr(a, b) == IF a < b THEN -1 ELSE IF a > b THEN 1 ELSE 0

(***************************************************************************)
(* cc4_map_insert_raw.  t is the buffer; el and key are the values the     *)
(* caller's el and key pointers designate.  The result holds the buffer,   *)
(* the index of the returned bucket, the destructor calls made, and what   *)
(* the caller's key and el storage holds afterwards (CC4_MEMSWAP writes     *)
(* it).                                                                    *)
(***************************************************************************)
RECURSIVE InsertRawPlace_no_displacement(_, _, _, _, _)
\* variant: the new entry never swaps with a richer entry, it walks on to the
\* first empty bucket
InsertRawPlace_no_displacement(t, i, probelen, key, el) ==
  IF Probelen(t, i) = 0
  THEN [t |-> [t EXCEPT !.b[i] = Bucket(key, el, probelen)], key |-> key, el |-> el]
  ELSE InsertRawPlace_no_displacement(t, NextIndex(i, t.cap), probelen + 1, key, el)

RECURSIVE InsertRawPlace(_, _, _, _, _)
\* the inner while( true ) loop entered once the new entry takes a bucket
InsertRawPlace(t, i, probelen, key, el) ==
  IF Probelen(t, i) = 0
  THEN [t |-> [t EXCEPT !.b[i] = Bucket(key, el, probelen)], key |-> key, el |-> el]
  ELSE IF probelen > Probelen(t, i)
       THEN InsertRawPlace([t EXCEPT !.b[i] = Bucket(key, el, probelen)],
                           NextIndex(i, t.cap), t.b[i].probelen + 1, t.b[i].key, t.b[i].el)
       ELSE InsertRawPlace(t, NextIndex(i, t.cap), probelen + 1, key, el)

RECURSIVE InsertRawProbe_follows_displaced(_, _, _, _, _, _, _, _)
\* variant: when the new entry steals an occupied bucket, the returned bucket
\* is the one the displaced entry is carried to first
InsertRawProbe_follows_displaced(t, i, probelen, key, el, replace, el_dtor, key_dtor) ==
  IF probelen > Probelen(t, i)
  THEN [ret |-> IF Probelen(t, i) = 0 THEN i ELSE NextIndex(i, t.cap), dtors |-> <<>>]
         @@ InsertRawPlace([t EXCEPT !.size = @ + 1], i, probelen, key, el)
  ELSE IF probelen = Probelen(t, i) /\ cmpr(t.b[i].key, key) = 0
       THEN IF replace
            THEN [t |-> [t EXCEPT !.b[i] = Bucket(key, el, probelen)], ret |-> i,
                  dtors |-> <<<<key_dtor, "key", t.b[i].key>>, <<el_dtor, "el", t.b[i].el>>>>,
                  key |-> key, el |-> el]
            ELSE [t |-> t, ret |-> i, dtors |-> <<>>, key |-> key, el |-> el]
       ELSE InsertRawProbe_follows_displaced(t, NextIndex(i, t.cap), probelen + 1, key, el, replace, el_dtor, key_dtor)

RECURSIVE InsertRawProbe_el_dtor_only(_, _, _, _, _, _, _, _)
\* variant: a replacing insert destroys the old element but not the old key
InsertRawProbe_el_dtor_only(t, i, probelen, key, el, replace, el_dtor, key_dtor) ==
  IF probelen > Probelen(t, i)
  THEN [ret |-> i, dtors |-> <<>>] @@ InsertRawPlace([t EXCEPT !.size = @ + 1], i, probelen, key, el)
  ELSE IF probelen = Probelen(t, i) /\ cmpr(t.b[i].key, key) = 0
       THEN IF replace
            THEN [t |-> [t EXCEPT !.b[i] = Bucket(key, el, probelen)], ret |-> i,
                  dtors |-> <<<<el_dtor, "el", t.b[i].el>>>>,
                  key |-> key, el |-> el]
            ELSE [t |-> t, ret |-> i, dtors |-> <<>>, key |-> key, el |-> el]
       ELSE InsertRawProbe_el_dtor_only(t, NextIndex(i, t.cap), probelen + 1, key, el, replace, el_dtor, key_dtor)

RECURSIVE InsertRawProbe_never_same_key(_, _, _, _, _, _, _, _)
\* variant: the keys are not compared, every call places a new entry
InsertRawProbe_never_same_key(t, i, probelen, key, el, replace, el_dtor, key_dtor) ==
  IF probelen > Probelen(t, i)
  THEN [ret |-> i, dtors |-> <<>>] @@ InsertRawPlace([t EXCEPT !.size = @ + 1], i, probelen, key, el)
  ELSE InsertRawProbe_never_same_key(t, NextIndex(i, t.cap), probelen + 1, key, el, replace, el_dtor, key_dtor)

RECURSIVE InsertRawProbe(_, _, _, _, _, _, _, _)
\* the outer while( true ) loop
InsertRawProbe(t, i, probelen, key, el, replace, el_dtor, key_dtor) ==
  IF probelen > Probelen(t, i)
  THEN [ret |-> i, dtors |-> <<>>] @@ InsertRawPlace([t EXCEPT !.size = @ + 1], i, probelen, key, el)
  ELSE IF probelen = Probelen(t, i) /\ cmpr(t.b[i].key, key) = 0
       THEN IF replace
            THEN [t |-> [t EXCEPT !.b[i] = Bucket(key, el, probelen)], ret |-> i,
                  dtors |-> <<<<key_dtor, "key", t.b[i].key>>, <<el_dtor, "el", t.b[i].el>>>>,
                  key |-> key, el |-> el]
            ELSE [t |-> t, ret |-> i, dtors |-> <<>>, key |-> key, el |-> el]
       ELSE InsertRawProbe(t, NextIndex(i, t.cap), probelen + 1, key, el, replace, el_dtor, key_dtor)

\* variant: the replace flag is ignored, an existing entry is always kept
cc4_map_insert_raw_never_replaces(t, el, key, replace, hash, el_dtor, key_dtor) ==
  InsertRawProbe(t, HomeIndex(hash[key], t.cap), 1, key, el, FALSE, el_dtor, key_dtor)

cc4_map_insert_raw(t, el, key, replace, hash, el_dtor, key_dtor) ==
  InsertRawProbe(t, HomeIndex(hash[key], t.cap), 1, key, el, replace, el_dtor, key_dtor)

(***************************************************************************)
(* cc4_map_insert_raw_unique.                                              *)
(***************************************************************************)
RECURSIVE InsertRawUniquePlace(_, _, _, _, _)
InsertRawUniquePlace(t, i, probelen, key, el) ==
  IF Probelen(t, i) = 0
  THEN [t |-> [t EXCEPT !.b[i] = Bucket(key, el, probelen)], key |-> key, el |-> el]
  ELSE IF probelen > Probelen(t, i)
       THEN InsertRawUniquePlace([t EXCEPT !.b[i] = Bucket(key, el, probelen)],
                                 NextIndex(i, t.cap), t.b[i].probelen + 1, t.b[i].key, t.b[i].el)
       ELSE InsertRawUniquePlace(t, NextIndex(i, t.cap), probelen + 1, key, el)

RECURSIVE InsertRawUniqueProbe_first_empty(_, _, _, _, _)
\* variant: the new entry walks on to the first empty bucket and steals none
InsertRawUniqueProbe_first_empty(t, i, probelen, key, el) ==
  IF Probelen(t, i) = 0
  THEN [ret |-> i] @@ InsertRawUniquePlace([t EXCEPT !.size = @ + 1], i, probelen, key, el)
  ELSE InsertRawUniqueProbe_first_empty(t, NextIndex(i, t.cap), probelen + 1, key, el)

RECURSIVE InsertRawUniqueProbe(_, _, _, _, _)
InsertRawUniqueProbe(t, i, probelen, key, el) ==
  IF probelen > Probelen(t, i)
  THEN [ret |-> i] @@ InsertRawUniquePlace([t EXCEPT !.size = @ + 1], i, probelen, key, el)
  ELSE InsertRawUniqueProbe(t, NextIndex(i, t.cap), probelen + 1, key, el)

cc4_map_insert_raw_unique(t, el, key, hash) ==
  InsertRawUniqueProbe(t, HomeIndex(hash[key], t.cap), 1, key, el)

(***************************************************************************)
(* Capacity policy.                                                        *)
(***************************************************************************)
\* n > cap * max_load
\* variant: a table filled exactly to the max load factor counts as too full
ExceedsLoad_at_limit(n, cap, max_load) == n * max_load[2] >= cap * max_load[1]

ExceedsLoad(n, cap, max_load) == n * max_load[2] > cap * max_load[1]

\* variant: the loop compares n with cap and forgets the max load factor
MinCapLoop_ignores_max_load(n, cap, max_load) ==
  IF n > cap THEN cap * 2 ELSE cap

RECURSIVE MinCapLoop(_, _, _)
MinCapLoop(n, cap, max_load) ==
  IF ExceedsLoad(n, cap, max_load) THEN MinCapLoop(n, cap * 2, max_load) ELSE cap

\* variant: the doubling starts at capacity 1
cc4_map_min_cap_for_n_els_from_1(n, max_load) ==
  IF n = 0 THEN 0 ELSE MinCapLoop(n, 1, max_load)

cc4_map_min_cap_for_n_els(n, max_load) ==
  IF n = 0 THEN 0 ELSE MinCapLoop(n, 8, max_load)

(***************************************************************************)
(* The allocator.                                                          *)
(***************************************************************************)
BufIds == 1..(Cardinality(Tables) + 1)

\* realloc_( NULL, n ) when it succeeds: a block that is not allocated
FreshBuf(H) == CHOOSE id \in BufIds : H[id] = FREE /\ \A j \in BufIds : H[j] = FREE => id <= j

\* free_( cntr )
FreeBuf(H, cntr) == [H EXCEPT ![cntr] = FREE]

(***************************************************************************)
(* cc4_map_make_rehash: the result is the heap (the new buffer populated,  *)
(* the old buffer as the rehash leaves it) and the new handle or NULLH.    *)
(***************************************************************************)
RECURSIVE RehashLoop(_, _, _, _)
RECURSIVE RehashStep(_, _, _, _)
\* for( i = 0; i < cap of cntr; ++i ) if occupied insert_raw_unique( new_cntr,
\* pointer to el of bucket i, pointer to key of bucket i )
RehashLoop(new, old, i, hash) ==
  IF i >= old.cap THEN [new |-> new, old |-> old]
  ELSE IF Probelen(old, i) # 0
       THEN RehashStep(cc4_map_insert_raw_unique(new, old.b[i].el, old.b[i].key, hash), old, i, hash)
       ELSE RehashLoop(new, old, i + 1, hash)

\* after the call r of insert_raw_unique for bucket i: the el and key pointers
\* designate the old bucket, which CC4_MEMSWAP has written
RehashStep(r, old, i, hash) ==
  RehashLoop(r.t, [old EXCEPT !.b[i].key = r.key, !.b[i].el = r.el], i + 1, hash)

\* the heap once the loop has ended with r, and the new handle
Rehashed(H, cntr, new_cntr, r) ==
  [H |-> [H EXCEPT ![new_cntr] = r.new, ![cntr] = r.old], new_cntr |-> new_cntr]

\* variant: the new header's size starts at the old size instead of 0
cc4_map_make_rehash_keeps_size(H, cntr, cap, hash, ok) ==
  IF ~ok THEN [H |-> H, new_cntr |-> NULLH]
  ELSE Rehashed(H, cntr, FreshBuf(H),
                RehashLoop([size |-> H[cntr].size, cap |-> cap, b |-> [i \in 0..(cap - 1) |-> EmptyBucket]],
                           H[cntr], 0, hash))

cc4_map_make_rehash(H, cntr, cap, hash, ok) ==
  IF ~ok THEN [H |-> H, new_cntr |-> NULLH]
  ELSE Rehashed(H, cntr, FreshBuf(H),
                RehashLoop([size |-> 0, cap |-> cap, b |-> [i \in 0..(cap - 1) |-> EmptyBucket]],
                           H[cntr], 0, hash))

(***************************************************************************)
(* Results of the container functions: the heap after the call, the new    *)
(* handle and the other pointer of cc4_allocing_fn_result_ty (or the       *)
(* returned pointer), and the calls made to destructors, free_ and         *)
(* realloc_, and the number of bucket reads.                               *)
(***************************************************************************)
Result(H, new_cntr, other_ptr, dtors, freed, alloc, reads) ==
  [H |-> H, new_cntr |-> new_cntr, other_ptr |-> other_ptr,
   dtors |-> dtors, freed |-> freed, alloc |-> alloc, reads |-> reads]

\* variant of AfterRehash: the old buffer is freed before the result of the
\* allocation is looked at
AfterRehash_frees_first(H, cntr, r) ==
  IF cc4_map_is_placeholder(H, cntr)
  THEN Result(r.H, IF r.new_cntr = NULLH THEN cntr ELSE r.new_cntr,
              IF r.new_cntr = NULLH THEN NULL ELSE cc4_dummy_true_ptr, <<>>, <<>>,
              IF r.new_cntr = NULLH THEN "fail" ELSE "ok", 0)
  ELSE Result(FreeBuf(r.H, cntr), IF r.new_cntr = NULLH THEN cntr ELSE r.new_cntr,
              IF r.new_cntr = NULLH THEN NULL ELSE cc4_dummy_true_ptr, <<>>, <<cntr>>,
              IF r.new_cntr = NULLH THEN "fail" ELSE "ok", 0)

\* the end of cc4_map_reserve and of cc4_map_shrink, r being what
\* cc4_map_make_rehash returned: NULL, or the old buffer is freed unless it is
\* the placeholder
AfterRehash(H, cntr, r) ==
  IF r.new_cntr = NULLH
  THEN Result(H, cntr, NULL, <<>>, <<>>, "fail", 0)
  ELSE IF ~cc4_map_is_placeholder(r.H, cntr)
       THEN Result(FreeBuf(r.H, cntr), r.new_cntr, cc4_dummy_true_ptr, <<>>, <<cntr>>, "ok", 0)
       ELSE Result(r.H, r.new_cntr, cc4_dummy_true_ptr, <<>>, <<>>, "ok", 0)

\* the capacity cap being the minimum for n
\* variant: a capacity equal to the one asked for is rehashed all the same
ReserveCap_rehashes_equal_cap(H, cntr, cap, hash, ok) ==
  IF cc4_map_cap(H, cntr) > cap \/ cap = 0
  THEN Result(H, cntr, cc4_dummy_true_ptr, <<>>, <<>>, "none", 0)
  ELSE AfterRehash(H, cntr, cc4_map_make_rehash(H, cntr, cap, hash, ok))

ReserveCap(H, cntr, cap, hash, ok) ==
  IF cc4_map_cap(H, cntr) >= cap
  THEN Result(H, cntr, cc4_dummy_true_ptr, <<>>, <<>>, "none", 0)
  ELSE AfterRehash(H, cntr, cc4_map_make_rehash(H, cntr, cap, hash, ok))

\* variant: the capacity is computed for n - 1 elements
cc4_map_reserve_one_less(H, cntr, n, hash, max_load, ok) ==
  ReserveCap(H, cntr, cc4_map_min_cap_for_n_els(Max(n, 1) - 1, max_load), hash, ok)

cc4_map_reserve(H, cntr, n, hash, max_load, ok) ==
  ReserveCap(H, cntr, cc4_map_min_cap_for_n_els(n, max_load), hash, ok)

\* the result of cc4_map_insert, r being what cc4_map_insert_raw did to the
\* buffer c of the heap H
Inserted(H, c, r, freed, alloc, el_size, layout) ==
  Result([H EXCEPT ![c] = r.t], c, cc4_map_el(c, r.ret, el_size, layout), r.dtors, freed, alloc, 0)

\* cc4_map_insert after the capacity check, res being what cc4_map_reserve
\* returned (or the handle as it is when there was room)
InsertReserved(res, el, key, replace, el_size, layout, hash, el_dtor, key_dtor) ==
  IF res.other_ptr = NULL THEN res
  ELSE Inserted(res.H, res.new_cntr,
                cc4_map_insert_raw(res.H[res.new_cntr], el, key, replace, hash, el_dtor, key_dtor),
                res.freed, res.alloc, el_size, layout)

\* variant: a key that is already in the table skips the capacity check
cc4_map_insert_looks_up_first(H, cntr, el, key, replace, el_size, layout, hash, max_load, el_dtor, key_dtor, ok) ==
  InsertReserved(
    IF /\ ExceedsLoad(cc4_map_size(H, cntr) + 1, cc4_map_cap(H, cntr), max_load)
       /\ \A i \in DOMAIN H[cntr].b : H[cntr].b[i].probelen = 0 \/ H[cntr].b[i].key # key
    THEN cc4_map_reserve(H, cntr, cc4_map_size(H, cntr) + 1, hash, max_load, ok)
    ELSE Result(H, cntr, cc4_dummy_true_ptr, <<>>, <<>>, "none", 0),
    el, key, replace, el_size, layout, hash, el_dtor, key_dtor)

cc4_map_insert(H, cntr, el, key, replace, el_size, layout, hash, max_load, el_dtor, key_dtor, ok) ==
  InsertReserved(
    IF ExceedsLoad(cc4_map_size(H, cntr) + 1, cc4_map_cap(H, cntr), max_load)
    THEN cc4_map_reserve(H, cntr, cc4_map_size(H, cntr) + 1, hash, max_load, ok)
    ELSE Result(H, cntr, cc4_dummy_true_ptr, <<>>, <<>>, "none", 0),
    el, key, replace, el_size, layout, hash, el_dtor, key_dtor)

(***************************************************************************)
(* cc4_map_get.  reads counts the buckets whose probe length is read, cmps *)
(* the buckets whose key is compared.                                      *)
(***************************************************************************)
RECURSIVE GetProbe_no_wrap(_, _, _, _, _, _)
\* variant: the index is incremented without & ( cap - 1 )
GetProbe_no_wrap(t, i, probelen, key, reads, cmps) ==
  IF probelen <= Probelen(t, i)
  THEN IF probelen = Probelen(t, i) /\ cmpr(t.b[i].key, key) = 0
       THEN [i |-> i, reads |-> reads + 1, cmps |-> cmps + 1]
       ELSE GetProbe_no_wrap(t, i + 1, probelen + 1, key, reads + 1,
                             IF probelen = Probelen(t, i) THEN cmps + 1 ELSE cmps)
  ELSE [i |-> -1, reads |-> reads + 1, cmps |-> cmps]

RECURSIVE GetProbe_until_empty(_, _, _, _, _, _)
\* variant: plain linear probing: the stored probe lengths only tell an empty
\* bucket from an occupied one, and every occupied bucket on the way is compared
GetProbe_until_empty(t, i, probelen, key, reads, cmps) ==
  IF Probelen(t, i) # 0 /\ probelen <= t.cap
  THEN IF cmpr(t.b[i].key, key) = 0
       THEN [i |-> i, reads |-> reads + 1, cmps |-> cmps + 1]
       ELSE GetProbe_until_empty(t, NextIndex(i, t.cap), probelen + 1, key, reads + 1, cmps + 1)
  ELSE [i |-> -1, reads |-> reads + 1, cmps |-> cmps]

RECURSIVE GetProbe(_, _, _, _, _, _)
\* while( probelen <= stored probe length ): the index found, or -1
GetProbe(t, i, probelen, key, reads, cmps) ==
  IF probelen <= Probelen(t, i)
  THEN IF probelen = Probelen(t, i) /\ cmpr(t.b[i].key, key) = 0
       THEN [i |-> i, reads |-> reads + 1, cmps |-> cmps + 1]
       ELSE GetProbe(t, NextIndex(i, t.cap), probelen + 1, key, reads + 1,
                     IF probelen = Probelen(t, i) THEN cmps + 1 ELSE cmps)
  ELSE [i |-> -1, reads |-> reads + 1, cmps |-> cmps]

\* the pointer returned once the loop has ended with r
Got(cntr, r, el_size, layout) ==
  [ret |-> IF r.i = -1 THEN NULL ELSE cc4_map_el(cntr, r.i, el_size, layout),
   reads |-> r.reads, cmps |-> r.cmps]

\* variant: no early return when the size is 0
cc4_map_get_no_size_check(H, cntr, key, el_size, layout, hash) ==
  Got(cntr, GetProbe(H[cntr], HomeIndex(hash[key], cc4_map_cap(H, cntr)), 1, key, 0, 0), el_size, layout)

cc4_map_get(H, cntr, key, el_size, layout, hash) ==
  IF cc4_map_size(H, cntr) = 0
  THEN [ret |-> NULL, reads |-> 0, cmps |-> 0]
  ELSE Got(cntr, GetProbe(H[cntr], HomeIndex(hash[key], cc4_map_cap(H, cntr)), 1, key, 0, 0),
           el_size, layout)

\* the bucket index a pointer-iterator designates:
\* ( itr - cc4_map_el( cntr, 0 ) ) / CC4_BUCKET_SIZE
ItrIndex(cntr, itr, el_size, layout) ==
  (itr[2] - cc4_map_el(cntr, 0, el_size, layout)[2]) \div CC4_BUCKET_SIZE(el_size, layout)

(***************************************************************************)
(* cc4_map_erase_itr, cc4_map_erase.                                       *)
(***************************************************************************)
\* variant: the following entries are not bumped backwards
EraseShift_no_shift(t, i) == t

RECURSIVE EraseShift_keeps_probelen(_, _)
\* variant: the entries bumped backwards keep their probe lengths
EraseShift_keeps_probelen(t, i) ==
  LET next == NextIndex(i, t.cap) IN
  IF Probelen(t, next) <= 1 THEN t
  ELSE EraseShift_keeps_probelen([t EXCEPT !.b[i] = Bucket(t.b[next].key, t.b[next].el, t.b[next].probelen),
                                           !.b[next] = EmptyBucket], next)

RECURSIVE EraseShift_until_empty(_, _)
\* variant: the loop stops at an empty bucket only, an entry in its home
\* bucket is bumped backwards too
EraseShift_until_empty(t, i) ==
  LET next == NextIndex(i, t.cap) IN
  IF Probelen(t, next) = 0 THEN t
  ELSE EraseShift_until_empty([t EXCEPT !.b[i] = Bucket(t.b[next].key, t.b[next].el, t.b[next].probelen - 1),
                                        !.b[next] = EmptyBucket], next)

RECURSIVE EraseShift(_, _)
\* the while( true ) loop that bumps the following entries backwards
EraseShift(t, i) ==
  LET next == NextIndex(i, t.cap) IN
  IF Probelen(t, next) <= 1 THEN t
  ELSE EraseShift([t EXCEPT !.b[i] = Bucket(t.b[next].key, t.b[next].el, t.b[next].probelen - 1),
                            !.b[next] = EmptyBucket], next)

\* variant: the size field is not decremented
cc4_map_erase_itr_keeps_size(H, cntr, itr, el_size, layout, el_dtor, key_dtor) ==
  LET i == ItrIndex(cntr, itr, el_size, layout)
      t == H[cntr]
      t1 == [t EXCEPT !.b[i] = EmptyBucket]
  IN  Result([H EXCEPT ![cntr] = EraseShift(t1, i)], cntr, cc4_dummy_true_ptr,
             <<<<key_dtor, "key", t.b[i].key>>, <<el_dtor, "el", t.b[i].el>>>>, <<>>, "none", 0)

cc4_map_erase_itr(H, cntr, itr, el_size, layout, el_dtor, key_dtor) ==
  LET i == ItrIndex(cntr, itr, el_size, layout)
      t == H[cntr]
      t1 == [t EXCEPT !.b[i] = EmptyBucket, !.size = @ - 1]
  IN  Result([H EXCEPT ![cntr] = EraseShift(t1, i)], cntr, cc4_dummy_true_ptr,
             <<<<key_dtor, "key", t.b[i].key>>, <<el_dtor, "el", t.b[i].el>>>>, <<>>, "none", 0)

\* variant of Erased: cc4_dummy_true_ptr is returned when the probe ends
\* without a match
Erased_true_on_miss(H, cntr, r, el_size, layout, el_dtor, key_dtor) ==
  IF r.i = -1
  THEN Result(H, cntr, cc4_dummy_true_ptr, <<>>, <<>>, "none", r.reads)
  ELSE [cc4_map_erase_itr(H, cntr, cc4_map_el(cntr, r.i, el_size, layout),
                          el_size, layout, el_dtor, key_dtor) EXCEPT !.reads = r.reads]

\* cc4_map_erase once the loop has ended with r: not found, or
\* cc4_map_erase_itr on the bucket found
Erased(H, cntr, r, el_size, layout, el_dtor, key_dtor) ==
  IF r.i = -1
  THEN Result(H, cntr, NULL, <<>>, <<>>, "none", r.reads)
  ELSE [cc4_map_erase_itr(H, cntr, cc4_map_el(cntr, r.i, el_size, layout),
                          el_size, layout, el_dtor, key_dtor) EXCEPT !.reads = r.reads]

cc4_map_erase(H, cntr, key, el_size, layout, hash, el_dtor, key_dtor) ==
  IF cc4_map_size(H, cntr) = 0
  THEN Result(H, cntr, NULL, <<>>, <<>>, "none", 0)
  ELSE Erased(H, cntr, GetProbe(H[cntr], HomeIndex(hash[key], cc4_map_cap(H, cntr)), 1, key, 0, 0),
              el_size, layout, el_dtor, key_dtor)

(***************************************************************************)
(* cc4_map_shrink, cc4_map_init_clone, cc4_map_clear, cc4_map_cleanup.     *)
(***************************************************************************)
\* the capacity cap being the minimum for the size
\* variant: an empty table keeps its buffer
ShrinkCap_keeps_empty_buffer(H, cntr, cap, hash, ok) ==
  IF cap = cc4_map_cap(H, cntr) \/ cap = 0
  THEN Result(H, cntr, cc4_dummy_true_ptr, <<>>, <<>>, "none", 0)
  ELSE AfterRehash(H, cntr, cc4_map_make_rehash(H, cntr, cap, hash, ok))

ShrinkCap(H, cntr, cap, hash, ok) ==
  IF cap = cc4_map_cap(H, cntr)
  THEN Result(H, cntr, cc4_dummy_true_ptr, <<>>, <<>>, "none", 0)
  ELSE IF cap = 0
  THEN IF ~cc4_map_is_placeholder(H, cntr)
       THEN Result(FreeBuf(H, cntr), PLACEHOLDER, cc4_dummy_true_ptr, <<>>, <<cntr>>, "none", 0)
       ELSE Result(H, PLACEHOLDER, cc4_dummy_true_ptr, <<>>, <<>>, "none", 0)
  ELSE AfterRehash(H, cntr, cc4_map_make_rehash(H, cntr, cap, hash, ok))

cc4_map_shrink(H, cntr, hash, max_load, ok) ==
  ShrinkCap(H, cntr, cc4_map_min_cap_for_n_els(cc4_map_size(H, cntr), max_load), hash, ok)

\* variant: no buffer is allocated, the copy is the buffer of the source
cc4_map_init_clone_aliases(H, src, ok) ==
  IF cc4_map_size(H, src) = 0
  THEN Result(H, PLACEHOLDER, cc4_dummy_true_ptr, <<>>, <<>>, "none", 0)
  ELSE IF ~ok
  THEN Result(H, NULLH, NULL, <<>>, <<>>, "fail", 0)
  ELSE Result(H, src, cc4_dummy_true_ptr, <<>>, <<>>, "ok", 0)

\* the returned pointer is the new handle (new_cntr), NULLH on failure
cc4_map_init_clone(H, src, ok) ==
  IF cc4_map_size(H, src) = 0
  THEN Result(H, PLACEHOLDER, cc4_dummy_true_ptr, <<>>, <<>>, "none", 0)
  ELSE IF ~ok
  THEN Result(H, NULLH, NULL, <<>>, <<>>, "fail", 0)
  ELSE LET new_cntr == FreshBuf(H)
       IN  Result([H EXCEPT ![new_cntr] = H[src]], new_cntr, cc4_dummy_true_ptr, <<>>, <<>>, "ok", 0)

RECURSIVE ClearLoop(_, _, _, _, _)
\* for( i = 0; i < cap; ++i ) if occupied: key_dtor, el_dtor, probe length 0
ClearLoop(t, i, dtors, el_dtor, key_dtor) ==
  IF i >= t.cap THEN [t |-> t, dtors |-> dtors]
  ELSE IF Probelen(t, i) # 0
       THEN ClearLoop([t EXCEPT !.b[i] = EmptyBucket], i + 1,
                      dtors \o <<<<key_dtor, "key", t.b[i].key>>, <<el_dtor, "el", t.b[i].el>>>>,
                      el_dtor, key_dtor)
       ELSE ClearLoop(t, i + 1, dtors, el_dtor, key_dtor)

\* variant: clear does not reset the size
Cleared_keeps_size(H, cntr, r) ==
  Result([H EXCEPT ![cntr] = r.t], cntr, cc4_dummy_true_ptr,
         r.dtors, <<>>, "none", cc4_map_cap(H, cntr))

\* the loop having ended with r: cc4_map_hdr( cntr )->size = 0
Cleared(H, cntr, r) ==
  Result([H EXCEPT ![cntr] = [r.t EXCEPT !.size = 0]], cntr, cc4_dummy_true_ptr,
         r.dtors, <<>>, "none", cc4_map_cap(H, cntr))

cc4_map_clear(H, cntr, el_dtor, key_dtor) ==
  IF cc4_map_size(H, cntr) = 0
  THEN Result(H, cntr, cc4_dummy_true_ptr, <<>>, <<>>, "none", 0)
  ELSE Cleared(H, cntr, ClearLoop(H[cntr], 0, <<>>, el_dtor, key_dtor))

\* variant: free_ is called on the placeholder too
CleanedUp_frees_placeholder(cntr, c) ==
  [c EXCEPT !.H = FreeBuf(c.H, cntr), !.freed = <<cntr>>]

\* cc4_map_cleanup after its call c of cc4_map_clear: free_ unless placeholder
CleanedUp(cntr, c) ==
  IF ~cc4_map_is_placeholder(c.H, cntr)
  THEN [c EXCEPT !.H = FreeBuf(c.H, cntr), !.freed = <<cntr>>]
  ELSE c

\* cc4_map_clear( cntr, el_size, layout, key_dtor, el_dtor, NULL ), then free_
cc4_map_cleanup(H, cntr, el_dtor, key_dtor) ==
  CleanedUp(cntr, cc4_map_clear(H, cntr, key_dtor, el_dtor))

(***************************************************************************)
(* Pointer-iterators: r_end, end, first, last.                             *)
(***************************************************************************)
cc4_map_r_end(cntr) == <<cntr, 0>>

\* variant: end is the address of the last bucket
cc4_map_end_last_bucket(H, cntr, el_size, layout) ==
  cc4_map_el(cntr, Max(cc4_map_cap(H, cntr), 1) - 1, el_size, layout)

cc4_map_end(H, cntr, el_size, layout) ==
  cc4_map_el(cntr, cc4_map_cap(H, cntr), el_size, layout)

RECURSIVE FirstLoop(_, _)
\* for( i = 0; i < cap; ++i ): the first occupied index, or cap
FirstLoop(t, i) ==
  IF i >= t.cap THEN i
  ELSE IF Probelen(t, i) # 0 THEN i ELSE FirstLoop(t, i + 1)

cc4_map_first(H, cntr, el_size, layout) ==
  LET i == FirstLoop(H[cntr], 0) IN
  IF i < cc4_map_cap(H, cntr)
  THEN [ret |-> cc4_map_el(cntr, i, el_size, layout), reads |-> i + 1]
  ELSE [ret |-> cc4_map_end(H, cntr, 0, layout), reads |-> i]

RECURSIVE LastLoop(_, _)
\* for( i = cap; i-- > 0; ): the last occupied index, or -1
LastLoop(t, i) ==
  IF i = 0 THEN -1
  ELSE IF Probelen(t, i - 1) # 0 THEN i - 1 ELSE LastLoop(t, i - 1)

cc4_map_last(H, cntr, el_size, layout) ==
  LET i == LastLoop(H[cntr], cc4_map_cap(H, cntr)) IN
  IF i >= 0
  THEN [ret |-> cc4_map_el(cntr, i, el_size, layout), reads |-> cc4_map_cap(H, cntr) - i]
  ELSE [ret |-> cc4_map_r_end(cntr), reads |-> cc4_map_cap(H, cntr)]

\* variant: prev steps to the bucket before itr, occupied or not
PrevLoop_previous_bucket(t, j) == IF j = 0 THEN -1 ELSE j - 1

RECURSIVE PrevLoop(_, _)
\* while( true ) { if( j == 0 ) return r_end; --j; if( probelen( j ) ) return el( j ); }
\* the index of the bucket returned, or -1 for r_end
PrevLoop(t, j) ==
  IF j = 0 THEN -1
  ELSE IF Probelen(t, j - 1) # 0 THEN j - 1 ELSE PrevLoop(t, j - 1)

\* the pointer cc4_map_prev returns for the index its loop stopped at
PrevAt(cntr, i, el_size, layout) ==
  IF i < 0 THEN cc4_map_r_end(cntr) ELSE cc4_map_el(cntr, i, el_size, layout)

\* itr is at or above bucket 0, as every pointer-iterator but r_end is
cc4_map_prev(H, cntr, itr, el_size, layout) ==
  PrevAt(cntr, PrevLoop(H[cntr], ItrIndex(cntr, itr, el_size, layout)), el_size, layout)

\* the width of size_t in bits
SizeBits == 64

RECURSIVE Pow2Mod(_, _)
\* 2^w modulo m
Pow2Mod(w, m) == IF w = 0 THEN 1 % m ELSE (2 * Pow2Mod(w - 1, m)) % m

RECURSIVE NextLoop(_, _)
\* while( j < cap && !probelen( j ) ) ++j;
NextLoop(t, j) ==
  IF j < t.cap /\ Probelen(t, j) = 0 THEN NextLoop(t, j + 1) ELSE j

\* itr below bucket 0 (itr is r_end): the pointer difference d < 0 becomes the
\* size_t 2^SizeBits + d when it is divided by the size_t bucket size bs, so
\* j = ( 2^SizeBits + d ) / bs + 1 is beyond every capacity, the loop does not
\* run, and cc4_map_el computes cntr + HdrSize + bs * j in size_t: with
\* r = ( 2^SizeBits + d ) % bs that is cntr + HdrSize + d - r + bs (inside
\* the buffer when bs - r >= HdrSize; below bucket 0 otherwise, where the
\* pointer addition has left the buffer and builds compute it modulo
\* 2^SizeBits)
NextBelow(cntr, d, bs) ==
  <<cntr, HdrSize + d - ((Pow2Mod(SizeBits, bs) + d) % bs) + bs>>

cc4_map_next(H, cntr, itr, el_size, layout) ==
  IF itr[2] >= cc4_map_el(cntr, 0, el_size, layout)[2]
  THEN cc4_map_el(cntr, NextLoop(H[cntr], ItrIndex(cntr, itr, el_size, layout) + 1),
                  el_size, layout)
  ELSE NextBelow(cntr, itr[2] - cc4_map_el(cntr, 0, el_size, layout)[2],
                 CC4_BUCKET_SIZE(el_size, layout))

RECURSIVE ForEachLoop(_, _, _, _, _, _)
\* for( i = first; i != end; i = next( i ) ): the values i takes in the body,
\* at most fuel of them
ForEachLoop(H, cntr, i, el_size, layout, fuel) ==
  IF i = cc4_map_end(H, cntr, el_size, layout) \/ fuel = 0 THEN <<>>
  ELSE <<i>> \o ForEachLoop(H, cntr, cc4_map_next(H, cntr, i, el_size, layout),
                            el_size, layout, fuel - 1)

\* cc4_for_each_2: first, then next until end; a loop that has not ended after
\* cap + 2 iterations is cut there
cc4_for_each_2(H, cntr, el_size, layout) ==
  ForEachLoop(H, cntr, cc4_map_first(H, cntr, el_size, layout).ret, el_size, layout,
              cc4_map_cap(H, cntr) + 2)

RECURSIVE RForEachLoop(_, _, _, _, _, _)
\* for( i = last; i != r_end; i = prev( i ) )
RForEachLoop(H, cntr, i, el_size, layout, fuel) ==
  IF i = cc4_map_r_end(cntr) \/ fuel = 0 THEN <<>>
  ELSE <<i>> \o RForEachLoop(H, cntr, cc4_map_prev(H, cntr, i, el_size, layout),
                             el_size, layout, fuel - 1)

\* cc4_r_for_each_2: last, then prev until r_end
cc4_r_for_each_2(H, cntr, el_size, layout) ==
  RForEachLoop(H, cntr, cc4_map_last(H, cntr, el_size, layout).ret, el_size, layout,
               cc4_map_cap(H, cntr) + 2)

(***************************************************************************)
(* The API macros as actions.  Each applies the container function to the  *)
(* handle of table tb and stores the new handle back, as                   *)
(* CC4_POINT_HNDL_TO_ALLOCING_FN_RESULT / CC4_FIX_HNDL_AND_RETURN_OTHER_PTR  *)
(* do.  last records the call: the macro, whether the pointer it returned  *)
(* is non-NULL, what the allocator did, and whether the size changed.      *)
(***************************************************************************)
EmptyAbs == [k \in {} |-> 10]
AbsPut(a, key, el) == [k \in DOMAIN a \cup {key} |-> IF k = key THEN el ELSE a[k]]
AbsDel(a, key) == [k \in DOMAIN a \ {key} |-> a[k]]

\* the sign of the change of the table's size
Sign(n) == IF n > 0 THEN 1 ELSE IF n < 0 THEN -1 ELSE 0

Call(op, tb, res) ==
  [op |-> op, ret |-> res.other_ptr # NULL, alloc |-> res.alloc,
   dsize |-> IF res.new_cntr = NULLH THEN 0
             ELSE Sign(res.H[res.new_cntr].size - (IF hnd[tb] = NULLH THEN 0 ELSE heap[hnd[tb]].size))]

Init ==
  /\ cfg \in Configs
  /\ hnd = [tb \in Tables |-> PLACEHOLDER]
  /\ heap = [id \in {PLACEHOLDER} \cup BufIds |-> IF id = PLACEHOLDER THEN cc4_map_placeholder ELSE FREE]
  /\ abs = [tb \in Tables |-> EmptyAbs]
  /\ only_inserts = [tb \in Tables |-> TRUE]
  /\ last = [op |-> "init", ret |-> TRUE, alloc |-> "none", dsize |-> 0]

\* the tables the program may call a container function on
Usable(tb) == tb \in cfg.tabs /\ hnd[tb] # NULLH

\* cc4_insert_3( &tb, key, el )
cc4_insert_3(H, cntr, key, el, ok) ==
  cc4_map_insert(H, cntr, el, key, TRUE, cfg.el_size, cfg.layout, cfg.hash, cfg.max_load,
                 "el_dtor", "key_dtor", ok)

Insert(tb, key, el, ok) ==
  /\ Usable(tb)
  /\ \E res \in {cc4_insert_3(heap, hnd[tb], key, el, ok)} :
         /\ heap' = res.H
         /\ hnd' = [hnd EXCEPT ![tb] = res.new_cntr]
         /\ last' = Call("insert", tb, res)
         /\ abs' = IF res.other_ptr # NULL THEN [abs EXCEPT ![tb] = AbsPut(@, key, el)] ELSE abs
         /\ only_inserts' = [only_inserts EXCEPT ![tb] = @ /\ res.other_ptr # NULL]
  /\ UNCHANGED cfg

\* variant: get_or_insert passes replace = true
cc4_get_or_insert_3_replaces(H, cntr, key, el, ok) ==
  cc4_map_insert(H, cntr, el, key, TRUE, cfg.el_size, cfg.layout, cfg.hash, cfg.max_load,
                 "el_dtor", "key_dtor", ok)

\* cc4_get_or_insert_3( &tb, key, el )
cc4_get_or_insert_3(H, cntr, key, el, ok) ==
  cc4_map_insert(H, cntr, el, key, FALSE, cfg.el_size, cfg.layout, cfg.hash, cfg.max_load,
                 "el_dtor", "key_dtor", ok)

GetOrInsert(tb, key, el, ok) ==
  /\ Usable(tb)
  /\ \E res \in {cc4_get_or_insert_3(heap, hnd[tb], key, el, ok)} :
         /\ heap' = res.H
         /\ hnd' = [hnd EXCEPT ![tb] = res.new_cntr]
         /\ last' = Call("get_or_insert", tb, res)
         /\ abs' = IF res.other_ptr # NULL /\ key \notin DOMAIN abs[tb]
                   THEN [abs EXCEPT ![tb] = AbsPut(@, key, el)] ELSE abs
  /\ only_inserts' = [only_inserts EXCEPT ![tb] = FALSE]
  /\ UNCHANGED cfg

\* cc4_get( &tb, key )
cc4_get(H, cntr, key) == cc4_map_get(H, cntr, key, cfg.el_size, cfg.layout, cfg.hash)

Get(tb, key) ==
  /\ Usable(tb)
  /\ last' = [op |-> "get", ret |-> cc4_get(heap, hnd[tb], key).ret # NULL, alloc |-> "none", dsize |-> 0]
  /\ UNCHANGED <<cfg, hnd, heap, abs, only_inserts>>

\* cc4_erase( &tb, key )
cc4_erase(H, cntr, key) ==
  cc4_map_erase(H, cntr, key, cfg.el_size, cfg.layout, cfg.hash, "el_dtor", "key_dtor")

Erase(tb, key) ==
  /\ Usable(tb)
  /\ \E res \in {cc4_erase(heap, hnd[tb], key)} :
         /\ heap' = res.H
         /\ last' = Call("erase", tb, res)
  /\ abs' = [abs EXCEPT ![tb] = AbsDel(@, key)]
  /\ only_inserts' = [only_inserts EXCEPT ![tb] = FALSE]
  /\ UNCHANGED <<cfg, hnd>>

\* cc4_erase_itr( &tb, itr )
cc4_erase_itr(H, cntr, itr) ==
  cc4_map_erase_itr(H, cntr, itr, cfg.el_size, cfg.layout, "el_dtor", "key_dtor")

\* the pointer-iterators to elements of the table: the occupied buckets
Occupied(H, cntr) == {i \in DOMAIN H[cntr].b : H[cntr].b[i].probelen # 0}

EraseItr(tb, i) ==
  /\ Usable(tb)
  /\ i \in Occupied(heap, hnd[tb])
  /\ \E res \in {cc4_erase_itr(heap, hnd[tb], cc4_map_el(hnd[tb], i, cfg.el_size, cfg.layout))} :
         /\ heap' = res.H
         /\ last' = Call("erase_itr", tb, res)
  /\ abs' = [abs EXCEPT ![tb] = AbsDel(@, heap[hnd[tb]].b[i].key)]
  /\ only_inserts' = [only_inserts EXCEPT ![tb] = FALSE]
  /\ UNCHANGED <<cfg, hnd>>

\* cc4_reserve( &tb, n )
cc4_reserve(H, cntr, n, ok) == cc4_map_reserve(H, cntr, n, cfg.hash, cfg.max_load, ok)

Reserve(tb, n, ok) ==
  /\ Usable(tb)
  /\ \E res \in {cc4_reserve(heap, hnd[tb], n, ok)} :
         /\ heap' = res.H
         /\ hnd' = [hnd EXCEPT ![tb] = res.new_cntr]
         /\ last' = Call("reserve", tb, res)
  /\ only_inserts' = [only_inserts EXCEPT ![tb] = FALSE]
  /\ UNCHANGED <<cfg, abs>>

\* cc4_shrink( &tb )
cc4_shrink(H, cntr, ok) == cc4_map_shrink(H, cntr, cfg.hash, cfg.max_load, ok)

Shrink(tb, ok) ==
  /\ Usable(tb)
  /\ \E res \in {cc4_shrink(heap, hnd[tb], ok)} :
         /\ heap' = res.H
         /\ hnd' = [hnd EXCEPT ![tb] = res.new_cntr]
         /\ last' = Call("shrink", tb, res)
  /\ only_inserts' = [only_inserts EXCEPT ![tb] = FALSE]
  /\ UNCHANGED <<cfg, abs>>

\* cc4_clear( &tb )
cc4_clear(H, cntr) == cc4_map_clear(H, cntr, "el_dtor", "key_dtor")

Clear(tb) ==
  /\ Usable(tb)
  /\ \E res \in {cc4_clear(heap, hnd[tb])} :
         /\ heap' = res.H
         /\ last' = Call("clear", tb, res)
  /\ abs' = [abs EXCEPT ![tb] = EmptyAbs]
  /\ only_inserts' = [only_inserts EXCEPT ![tb] = FALSE]
  /\ UNCHANGED <<cfg, hnd>>

\* cc4_cleanup( &tb ): cc4_map_cleanup, then cc4_init: the handle is the placeholder
cc4_cleanup(H, cntr) ==
  [cc4_map_cleanup(H, cntr, "el_dtor", "key_dtor") EXCEPT !.new_cntr = PLACEHOLDER]

Cleanup(tb) ==
  /\ Usable(tb)
  /\ \E res \in {cc4_cleanup(heap, hnd[tb])} :
         /\ heap' = res.H
         /\ hnd' = [hnd EXCEPT ![tb] = res.new_cntr]
         /\ last' = Call("cleanup", tb, res)
  /\ abs' = [abs EXCEPT ![tb] = EmptyAbs]
  /\ only_inserts' = [only_inserts EXCEPT ![tb] = FALSE]
  /\ UNCHANGED cfg

\* cc4_init_clone( &dst, &src ): the handle of dst is the returned pointer
cc4_init_clone(H, src, ok) == cc4_map_init_clone(H, src, ok)

\* dst is a container that holds no buffer
InitClone(dst, src, ok) ==
  /\ dst \in cfg.tabs /\ dst # src
  /\ hnd[dst] \in {PLACEHOLDER, NULLH}
  /\ Usable(src)
  /\ \E res \in {cc4_init_clone(heap, hnd[src], ok)} :
         /\ heap' = res.H
         /\ hnd' = [hnd EXCEPT ![dst] = res.new_cntr]
         /\ last' = Call("init_clone", dst, res)
         /\ abs' = [abs EXCEPT ![dst] = IF res.other_ptr # NULL THEN abs[src] ELSE EmptyAbs]
  /\ only_inserts' = [only_inserts EXCEPT ![dst] = FALSE]
  /\ UNCHANGED cfg

\* for_each( &tb, i ) with an empty body
ForEach(tb) ==
  /\ Usable(tb)
  /\ last' = [op |-> "for_each",
              ret |-> cc4_for_each_2(heap, hnd[tb], cfg.el_size, cfg.layout) # <<>>,
              alloc |-> "none", dsize |-> 0]
  /\ UNCHANGED <<cfg, hnd, heap, abs, only_inserts>>

\* r_for_each( &tb, i ) with an empty body
RForEach(tb) ==
  /\ Usable(tb)
  /\ last' = [op |-> "r_for_each",
              ret |-> cc4_r_for_each_2(heap, hnd[tb], cfg.el_size, cfg.layout) # <<>>,
              alloc |-> "none", dsize |-> 0]
  /\ UNCHANGED <<cfg, hnd, heap, abs, only_inserts>>

\* cc4_next( &tb, cc4_r_end( &tb ) )
NextOfREnd(tb) ==
  /\ Usable(tb)
  /\ last' = [op |-> "next_of_r_end",
              ret |-> cc4_map_next(heap, hnd[tb], cc4_map_r_end(hnd[tb]),
                                   cfg.el_size, cfg.layout) # NULL,
              alloc |-> "none", dsize |-> 0]
  /\ UNCHANGED <<cfg, hnd, heap, abs, only_inserts>>

\* cc4_prev( &tb, cc4_end( &tb ) )
PrevOfEnd(tb) ==
  /\ Usable(tb)
  /\ last' = [op |-> "prev_of_end",
              ret |-> cc4_map_prev(heap, hnd[tb],
                                   cc4_map_end(heap, hnd[tb], cfg.el_size, cfg.layout),
                                   cfg.el_size, cfg.layout) # NULL,
              alloc |-> "none", dsize |-> 0]
  /\ UNCHANGED <<cfg, hnd, heap, abs, only_inserts>>

\* the largest capacity the bounds reach
MaxCap == cc4_map_min_cap_for_n_els(Max(NumKeys, MaxReserve), <<1, 4>>)

Next ==
  \/ \E tb \in Tables, key \in cfg.keys, el \in cfg.els, ok \in BOOLEAN : Insert(tb, key, el, ok)
  \/ \E tb \in Tables, key \in cfg.keys, el \in cfg.els, ok \in BOOLEAN : GetOrInsert(tb, key, el, ok)
  \/ \E tb \in Tables, key \in cfg.keys : Get(tb, key)
  \/ \E tb \in Tables, key \in cfg.keys : Erase(tb, key)
  \/ \E tb \in Tables, i \in 0..(MaxCap - 1) : EraseItr(tb, i)
  \/ \E tb \in Tables, n \in 0..MaxReserve, ok \in BOOLEAN : Reserve(tb, n, ok)
  \/ \E tb \in Tables, ok \in BOOLEAN : Shrink(tb, ok)
  \/ \E tb \in Tables : Clear(tb)
  \/ \E tb \in Tables : Cleanup(tb)
  \/ \E dst \in Tables, src \in Tables, ok \in BOOLEAN : InitClone(dst, src, ok)
  \/ \E tb \in Tables : ForEach(tb)
  \/ \E tb \in Tables : RForEach(tb)
  \/ \E tb \in Tables : NextOfREnd(tb)
  \/ \E tb \in Tables : PrevOfEnd(tb)

Spec == Init /\ [][Next]_vars

(***************************************************************************)
(* Properties.  A property of an operation is stated over every reachable  *)
(* state: the operation is applied to the state's heap and handle with     *)
(* every input, and the result is compared with what is expected.          *)
(***************************************************************************)
\* *( key type * )cc4_map_key_for( p ) and *( el type * )p of a pointer-iterator p
KeyAt(H, p) == H[p[1]].b[ItrIndex(p[1], p, cfg.el_size, cfg.layout)].key
ElAt(H, p) == H[p[1]].b[ItrIndex(p[1], p, cfg.el_size, cfg.layout)].el

\* the entries a buffer stores, read off its occupied buckets
Present(H, cntr, k) == \E i \in Occupied(H, cntr) : H[cntr].b[i].key = k
ElOf(H, cntr, k) == H[cntr].b[CHOOSE i \in Occupied(H, cntr) : H[cntr].b[i].key = k].el
Pairs(H, cntr) == {<<H[cntr].b[i].key, H[cntr].b[i].el>> : i \in Occupied(H, cntr)}

Live == {tb \in cfg.tabs : hnd[tb] # NULLH}

\* C1: on a table that started as the placeholder and has seen only successful
\* replacing inserts (and gets), with any hash function, the constant one
\* included: get( k ) returns the bucket holding k and the element most
\* recently inserted for k, get of a key never inserted returns NULL, and the
\* size is the number of distinct keys inserted.
C1_InsertThenGet ==
  \A tb \in Live :
    only_inserts[tb] =>
      /\ cc4_map_size(heap, hnd[tb]) = Cardinality(DOMAIN abs[tb])
      /\ \A k \in cfg.keys :
           \A p \in {cc4_get(heap, hnd[tb], k).ret} :
           IF k \in DOMAIN abs[tb]
           THEN p # NULL /\ p[1] = hnd[tb] /\ KeyAt(heap, p) = k /\ ElAt(heap, p) = abs[tb][k]
           ELSE p = NULL

\* three keys with the same hash are stored after inserts only, one of them by
\* an insert that replaced its element
C1_Witness ==
  /\ "m" \in Live
  /\ only_inserts["m"] /\ last.op = "insert" /\ last.ret /\ last.dsize = 0
  /\ cfg.hash = HashConst
  /\ cc4_map_size(heap, hnd["m"]) = 3
  /\ \E k \in DOMAIN abs["m"] : abs["m"][k] = 20

\* C2: erase( k ) of a present key returns true; afterwards get( k ) is
\* not-found, the size is one less, and every other key that was present is
\* still returned by get with its original element.
C2_EraseRemovesOnlyKey ==
  \A tb \in Live : \A k \in cfg.keys :
    Present(heap, hnd[tb], k) =>
      \A r \in {cc4_erase(heap, hnd[tb], k)} :
      /\ r.other_ptr # NULL
      /\ r.new_cntr = hnd[tb]
      /\ cc4_get(r.H, r.new_cntr, k).ret = NULL
      /\ cc4_map_size(r.H, r.new_cntr) = cc4_map_size(heap, hnd[tb]) - 1
      /\ \A k2 \in cfg.keys \ {k} :
           Present(heap, hnd[tb], k2) =>
             \A p \in {cc4_get(r.H, r.new_cntr, k2).ret} :
             /\ p # NULL
             /\ KeyAt(r.H, p) = k2
             /\ ElAt(r.H, p) = ElOf(heap, hnd[tb], k2)

\* an erase has removed a key and left a displaced entry behind
C2_Witness ==
  /\ "m" \in Live
  /\ last.op = "erase" /\ last.ret /\ last.dsize = -1
  /\ cc4_map_size(heap, hnd["m"]) = 2
  /\ \E i \in Occupied(heap, hnd["m"]) : heap[hnd["m"]].b[i].probelen > 1

\* C3: in every state reached by insert, get_or_insert, erase, erase_itr,
\* reserve, shrink, clear and init_clone, size <= cap * max_load for every
\* table (the placeholder: 0 <= 0).
C3_LoadInvariant ==
  \A tb \in Live :
    cc4_map_size(heap, hnd[tb]) * cfg.max_load[2] <= cc4_map_cap(heap, hnd[tb]) * cfg.max_load[1]

\* a successful insert has filled an allocated table exactly to its max load
C3_Witness ==
  /\ "m" \in Live
  /\ last.op = "insert" /\ last.ret /\ last.dsize = 1
  /\ cc4_map_cap(heap, hnd["m"]) > 0
  /\ cc4_map_size(heap, hnd["m"]) * cfg.max_load[2] = cc4_map_cap(heap, hnd["m"]) * cfg.max_load[1]

\* the calls of insert, get_or_insert, reserve and shrink on table tb in which
\* the allocator fails whenever it is asked
FailingCalls(tb) ==
  {cc4_insert_3(heap, hnd[tb], k, e, FALSE) : k \in cfg.keys, e \in cfg.els}
  \cup {cc4_get_or_insert_3(heap, hnd[tb], k, e, FALSE) : k \in cfg.keys, e \in cfg.els}
  \cup {cc4_reserve(heap, hnd[tb], n, FALSE) : n \in 0..MaxReserve}
  \cup {cc4_shrink(heap, hnd[tb], FALSE)}

\* C4: when the allocator fails inside insert, get_or_insert, reserve or
\* shrink, the call reports failure (NULL / false) and the handle, the
\* capacity, the size and every bucket are as before the call; no destructor
\* has run and no buffer has been freed.
C4_AllocFailureAtomic ==
  \A tb \in Live : \A r \in FailingCalls(tb) :
    r.alloc = "fail" =>
      /\ r.other_ptr = NULL
      /\ r.new_cntr = hnd[tb]
      /\ r.H = heap
      /\ r.dtors = <<>>
      /\ r.freed = <<>>

\* an insert into a table that holds entries has failed in the allocator
C4_Witness ==
  /\ "m" \in Live
  /\ last.op = "insert" /\ last.alloc = "fail" /\ ~last.ret
  /\ cc4_map_size(heap, hnd["m"]) >= 2

\* C5: insert( k, v1 ) followed by insert( k, v2 ) leaves exactly one occupied
\* bucket with key k, holding v2, and the size counts k once.
C5_ReinsertReplaces ==
  \A tb \in Live : \A k \in cfg.keys : \A v1 \in cfg.els, v2 \in cfg.els : \A ok1 \in BOOLEAN, ok2 \in BOOLEAN :
    \A r1 \in {cc4_insert_3(heap, hnd[tb], k, v1, ok1)} :
    \A r2 \in {cc4_insert_3(r1.H, r1.new_cntr, k, v2, ok2)} :
    \A t2 \in {r2.H[r2.new_cntr]} :
        (r1.other_ptr # NULL /\ r2.other_ptr # NULL) =>
          /\ Cardinality({i \in Occupied(r2.H, r2.new_cntr) : t2.b[i].key = k}) = 1
          /\ \A i \in Occupied(r2.H, r2.new_cntr) : t2.b[i].key = k => t2.b[i].el = v2
          /\ KeyAt(r2.H, r2.other_ptr) = k /\ ElAt(r2.H, r2.other_ptr) = v2
          /\ t2.size = cc4_map_size(r1.H, r1.new_cntr)
          /\ t2.size = cc4_map_size(heap, hnd[tb]) + (IF Present(heap, hnd[tb], k) THEN 0 ELSE 1)

\* an insert has replaced the element of a key that was already stored, next
\* to another entry
C5_Witness ==
  /\ "m" \in Live
  /\ last.op = "insert" /\ last.ret /\ last.dsize = 0
  /\ cc4_map_size(heap, hnd["m"]) = 2
  /\ \E k \in DOMAIN abs["m"] : abs["m"][k] = 20

\* C6: a successful reserve( n ) with n >= size changes neither the size nor
\* the set of ( key, element ) pairs stored; only the capacity and the
\* positions of the entries may change, and no destructor runs.
C6_ReservePreservesContents ==
  \A tb \in Live : \A n \in 0..MaxReserve : \A ok \in BOOLEAN :
    \A r \in {cc4_reserve(heap, hnd[tb], n, ok)} :
    (n >= cc4_map_size(heap, hnd[tb]) /\ r.other_ptr # NULL) =>
      /\ cc4_map_size(r.H, r.new_cntr) = cc4_map_size(heap, hnd[tb])
      /\ Pairs(r.H, r.new_cntr) = Pairs(heap, hnd[tb])
      /\ Cardinality(Occupied(r.H, r.new_cntr)) = Cardinality(Occupied(heap, hnd[tb]))
      /\ r.dtors = <<>>

\* a reserve has rehashed a table of two entries into a new buffer
C6_Witness ==
  /\ "m" \in Live
  /\ last.op = "reserve" /\ last.ret /\ last.alloc = "ok"
  /\ cc4_map_size(heap, hnd["m"]) >= 2

\* C7: in every table, an occupied bucket at index i with probe length p > 1
\* has an occupied bucket at ( i - 1 ) mod cap with probe length >= p - 1;
\* hence get never reports not-found for a key that is present.
C7_RobinHood ==
  \A tb \in Live :
    LET t == heap[hnd[tb]] IN
    /\ \A i \in Occupied(heap, hnd[tb]) :
         t.b[i].probelen > 1 => t.b[(i + t.cap - 1) % t.cap].probelen >= t.b[i].probelen - 1
    /\ \A k \in cfg.keys : Present(heap, hnd[tb], k) => cc4_get(heap, hnd[tb], k).ret # NULL

\* an insert has displaced an entry: bucket 7 holds an entry at home, and the
\* cluster wraps around to buckets 0 and 1
C7_Witness ==
  /\ "m" \in Live
  /\ last.op \in {"insert", "get_or_insert"} /\ last.dsize = 1
  /\ cfg.hash = HashClustered
  /\ cc4_map_cap(heap, hnd["m"]) = 8
  /\ heap[hnd["m"]].b[7].probelen = 2
  /\ heap[hnd["m"]].b[0].probelen = 2

\* C8: get_or_insert of an absent key inserts it, the size grows by one and
\* the returned pointer designates the new element; of a present key, the
\* stored key and element are unchanged, the size is unchanged and the
\* returned pointer designates the existing element.
C8_GetOrInsert ==
  \A tb \in Live : \A k \in cfg.keys : \A v \in cfg.els : \A ok \in BOOLEAN :
    \A r \in {cc4_get_or_insert_3(heap, hnd[tb], k, v, ok)} :
    r.other_ptr # NULL =>
      /\ r.other_ptr[1] = r.new_cntr
      /\ KeyAt(r.H, r.other_ptr) = k
      /\ IF Present(heap, hnd[tb], k)
         THEN /\ cc4_map_size(r.H, r.new_cntr) = cc4_map_size(heap, hnd[tb])
              /\ ElAt(r.H, r.other_ptr) = ElOf(heap, hnd[tb], k)
              /\ Pairs(r.H, r.new_cntr) = Pairs(heap, hnd[tb])
              /\ r.dtors = <<>>
         ELSE /\ cc4_map_size(r.H, r.new_cntr) = cc4_map_size(heap, hnd[tb]) + 1
              /\ ElAt(r.H, r.other_ptr) = v
              /\ Pairs(r.H, r.new_cntr) = Pairs(heap, hnd[tb]) \cup {<<k, v>>}

\* a get_or_insert has found its key in a table of two entries and left the
\* size as it was
C8_Witness ==
  /\ "m" \in Live
  /\ last.op = "get_or_insert" /\ last.ret /\ last.dsize = 0
  /\ cc4_map_size(heap, hnd["m"]) = 2

\* C9: erase returns true if and only if the key was present; when it returns
\* false the size, the capacity and every bucket are unchanged and no
\* destructor has run.
C9_EraseReturn ==
  \A tb \in Live : \A k \in cfg.keys :
    \A r \in {cc4_erase(heap, hnd[tb], k)} :
    /\ (r.other_ptr # NULL) <=> Present(heap, hnd[tb], k)
    /\ r.other_ptr = NULL => (r.H = heap /\ r.new_cntr = hnd[tb] /\ r.dtors = <<>> /\ r.freed = <<>>)

\* an erase of an absent key has returned false on a table that holds entries
C9_Witness ==
  /\ "m" \in Live
  /\ last.op = "erase" /\ ~last.ret /\ last.dsize = 0
  /\ cc4_map_size(heap, hnd["m"]) >= 2

\* the calls of erase, clear, shrink and cleanup on the handle cntr
PlaceholderCalls(cntr) ==
  {cc4_erase(heap, cntr, k) : k \in cfg.keys}
  \cup {cc4_shrink(heap, cntr, ok) : ok \in BOOLEAN}
  \cup {cc4_clear(heap, cntr), cc4_cleanup(heap, cntr)}

\* C10: on a table in the placeholder state the size is 0, get returns
\* not-found, erase returns false, first equals end, last equals r_end, and
\* clear, shrink and cleanup succeed; none of these writes the placeholder,
\* frees it, or reads a bucket.
C10_Placeholder ==
  /\ heap[PLACEHOLDER] = cc4_map_placeholder
  /\ \A tb \in Live :
       hnd[tb] = PLACEHOLDER =>
         LET c == hnd[tb] IN
         /\ cc4_map_size(heap, c) = 0
         /\ \A k \in cfg.keys :
              /\ cc4_get(heap, c, k).ret = NULL /\ cc4_get(heap, c, k).reads = 0
              /\ cc4_erase(heap, c, k).other_ptr = NULL
         /\ cc4_map_first(heap, c, cfg.el_size, cfg.layout).ret = cc4_map_end(heap, c, cfg.el_size, cfg.layout)
         /\ cc4_map_first(heap, c, cfg.el_size, cfg.layout).reads = 0
         /\ cc4_map_last(heap, c, cfg.el_size, cfg.layout).ret = cc4_map_r_end(c)
         /\ cc4_map_last(heap, c, cfg.el_size, cfg.layout).reads = 0
         /\ cc4_clear(heap, c).other_ptr # NULL
         /\ cc4_cleanup(heap, c).other_ptr # NULL
         /\ \A ok \in BOOLEAN : cc4_shrink(heap, c, ok).other_ptr # NULL
         /\ \A r \in PlaceholderCalls(c) :
              /\ r.H = heap /\ r.new_cntr = PLACEHOLDER
              /\ r.freed = <<>> /\ r.alloc = "none" /\ r.dtors = <<>> /\ r.reads = 0

\* a clear has run on the only table while its handle was the placeholder
\* (clear leaves the handle as it is) and no buffer is allocated
C10_Witness ==
  /\ "m" \in Live
  /\ last.op = "clear" /\ last.dsize = 0
  /\ cfg.tabs = {"m"}
  /\ hnd["m"] = PLACEHOLDER
  /\ \A id \in BufIds : heap[id] = FREE

(***************************************************************************)
(* Iteration.                                                              *)
(***************************************************************************)
\* element and key types a map is declared with: the element size and the
\* layout of map( int, int ), map( int, int64 ), map( char, char ) and
\* map( int64, int ) (key type first)
ElKeyTypes ==
  { [el_size |-> 4, layout |-> cc4_layout(4, 4, 4, 4)],
    [el_size |-> 8, layout |-> cc4_layout(8, 8, 4, 4)],
    [el_size |-> 1, layout |-> cc4_layout(1, 1, 1, 1)],
    [el_size |-> 4, layout |-> cc4_layout(4, 4, 8, 8)] }

\* the indices of the occupied buckets, in increasing order
RECURSIVE OccupiedFrom(_, _)
OccupiedFrom(t, i) ==
  IF i >= t.cap THEN <<>>
  ELSE (IF Probelen(t, i) # 0 THEN <<i>> ELSE <<>>) \o OccupiedFrom(t, i + 1)

OccupiedSeq(H, cntr) == OccupiedFrom(H[cntr], 0)

\* the pointer-iterators to the buckets of the indices idxs, in their order
ElSeq(cntr, idxs, el_size, layout) ==
  [n \in DOMAIN idxs |-> cc4_map_el(cntr, idxs[n], el_size, layout)]

\* C11: on every table of size 0 (the placeholder, and an allocated table that
\* was emptied), for every element size, first returns exactly end, so that
\* for_each executes zero iterations.
C11_FirstIsEndWhenEmpty ==
  \A tb \in Live : \A ty \in ElKeyTypes :
    cc4_map_size(heap, hnd[tb]) = 0 =>
      /\ cc4_map_first(heap, hnd[tb], ty.el_size, ty.layout).ret
           = cc4_map_end(heap, hnd[tb], ty.el_size, ty.layout)
      /\ cc4_for_each_2(heap, hnd[tb], ty.el_size, ty.layout) = <<>>

\* C12: on any reachable table, first and then next until end visits exactly
\* the occupied buckets, each once, in increasing index order, so that the
\* number of iterations equals the size; the walk always reaches end.
C12_ForwardWalk ==
  \A tb \in Live : \A ty \in ElKeyTypes :
    \A w \in {cc4_for_each_2(heap, hnd[tb], ty.el_size, ty.layout)} :
      /\ w = ElSeq(hnd[tb], OccupiedSeq(heap, hnd[tb]), ty.el_size, ty.layout)
      /\ Len(w) = cc4_map_size(heap, hnd[tb])
      /\ Len(w) <= cc4_map_cap(heap, hnd[tb])

\* the sequence s in reverse order
Reverse(s) == [n \in 1..Len(s) |-> s[Len(s) + 1 - n]]

\* C13: last and then prev until r_end visits exactly the occupied buckets,
\* each once, in exactly the reverse of the order produced by first/next; last
\* returns r_end when the table is empty, and prev of the first element
\* returns r_end.
C13_BackwardWalk ==
  \A tb \in Live : \A ty \in ElKeyTypes :
    \A w \in {cc4_r_for_each_2(heap, hnd[tb], ty.el_size, ty.layout)} :
      /\ w = ElSeq(hnd[tb], Reverse(OccupiedSeq(heap, hnd[tb])), ty.el_size, ty.layout)
      /\ w = Reverse(cc4_for_each_2(heap, hnd[tb], ty.el_size, ty.layout))
      /\ cc4_map_size(heap, hnd[tb]) = 0 =>
           cc4_map_last(heap, hnd[tb], ty.el_size, ty.layout).ret = cc4_map_r_end(hnd[tb])
      /\ cc4_map_size(heap, hnd[tb]) > 0 =>
           cc4_map_prev(heap, hnd[tb],
                        cc4_map_first(heap, hnd[tb], ty.el_size, ty.layout).ret,
                        ty.el_size, ty.layout) = cc4_map_r_end(hnd[tb])

\* C14: next( cntr, r_end( cntr ) ) returns a pointer to the first element (the
\* same pointer as first( cntr )), or end if the table is empty, on every
\* reachable table and for every element/key layout.
C14_NextOfREnd ==
  \A tb \in Live : \A ty \in ElKeyTypes :
    \A n \in {cc4_map_next(heap, hnd[tb], cc4_map_r_end(hnd[tb]), ty.el_size, ty.layout)} :
      /\ cc4_map_size(heap, hnd[tb]) > 0 =>
           n = cc4_map_first(heap, hnd[tb], ty.el_size, ty.layout).ret
      /\ cc4_map_size(heap, hnd[tb]) = 0 =>
           n = cc4_map_end(heap, hnd[tb], ty.el_size, ty.layout)

\* C15: prev( cntr, end( cntr ) ) returns a pointer to the last element (the
\* same pointer as last( cntr )): the occupied bucket of the greatest index; or
\* r_end if the table is empty, the placeholder included.
C15_PrevOfEnd ==
  \A tb \in Live : \A ty \in ElKeyTypes :
    \A p \in {cc4_map_prev(heap, hnd[tb],
                           cc4_map_end(heap, hnd[tb], ty.el_size, ty.layout),
                           ty.el_size, ty.layout)} :
      /\ p = cc4_map_last(heap, hnd[tb], ty.el_size, ty.layout).ret
      /\ cc4_map_size(heap, hnd[tb]) > 0 =>
           \E i \in Occupied(heap, hnd[tb]) :
              /\ p = cc4_map_el(hnd[tb], i, ty.el_size, ty.layout)
              /\ \A j \in Occupied(heap, hnd[tb]) : j <= i
      /\ cc4_map_size(heap, hnd[tb]) = 0 => p = cc4_map_r_end(hnd[tb])

\* prev was applied to end of a non-empty table whose last bucket is empty
C15_Witness ==
  /\ "m" \in Live
  /\ last.op = "prev_of_end"
  /\ cc4_map_cap(heap, hnd["m"]) > 0
  /\ Probelen(heap[hnd["m"]], cc4_map_cap(heap, hnd["m"]) - 1) = 0
  /\ cc4_map_size(heap, hnd["m"]) > 0

(***************************************************************************)
(* Sentinels.                                                              *)
(***************************************************************************)
\* the calls on table tb that may rehash it, with every input and both
\* outcomes of the allocator
RehashingCalls(tb) ==
  {cc4_insert_3(heap, hnd[tb], k, e, ok) : k \in cfg.keys, e \in cfg.els, ok \in BOOLEAN}
  \cup {cc4_get_or_insert_3(heap, hnd[tb], k, e, ok) : k \in cfg.keys, e \in cfg.els, ok \in BOOLEAN}
  \cup {cc4_reserve(heap, hnd[tb], n, ok) : n \in 0..MaxReserve, ok \in BOOLEAN}
  \cup {cc4_shrink(heap, hnd[tb], ok) : ok \in BOOLEAN}

\* the calls on table tb that change it in place
InPlaceCalls(tb) ==
  {cc4_erase(heap, hnd[tb], k) : k \in cfg.keys}
  \cup {cc4_erase_itr(heap, hnd[tb], cc4_map_el(hnd[tb], i, cfg.el_size, cfg.layout)) :
          i \in Occupied(heap, hnd[tb])}
  \cup {cc4_clear(heap, hnd[tb])}

\* neither sentinel of the table at cntr is the address of an occupied bucket
SentinelsApart(H, cntr, el_size, layout) ==
  \A i \in Occupied(H, cntr) :
    /\ cc4_map_el(cntr, i, el_size, layout) # cc4_map_end(H, cntr, el_size, layout)
    /\ cc4_map_el(cntr, i, el_size, layout) # cc4_map_r_end(cntr)

DtorCalls(H, cntr, fn, kind) ==
  [n \in DOMAIN OccupiedSeq(H, cntr) |-> <<fn, kind, H[cntr].b[OccupiedSeq(H, cntr)[n]][kind]>>]

\* the calls in the log dtors that were made on a key ("key") or on an
\* element ("el")
CallsOn(dtors, kind) == SelectSeq(dtors, LAMBDA d : d[2] = kind)

\* C17: cleanup invokes the key type's destructor exactly once on each live
\* key and the element type's destructor exactly once on each live element
\* (never the key destructor on an element or the element destructor on a
\* key), frees the buffer if the table is not the placeholder, and leaves the
\* handle in the placeholder state (size 0, capacity 0).
C17_Cleanup ==
  \A tb \in Live : \A r \in {cc4_cleanup(heap, hnd[tb])} :
    /\ CallsOn(r.dtors, "key") = DtorCalls(heap, hnd[tb], "key_dtor", "key")
    /\ CallsOn(r.dtors, "el") = DtorCalls(heap, hnd[tb], "el_dtor", "el")
    /\ Len(r.dtors) = 2 * cc4_map_size(heap, hnd[tb])
    /\ r.freed = IF hnd[tb] = PLACEHOLDER THEN <<>> ELSE <<hnd[tb]>>
    /\ hnd[tb] # PLACEHOLDER => r.H[hnd[tb]] = FREE
    /\ r.new_cntr = PLACEHOLDER
    /\ cc4_map_size(r.H, r.new_cntr) = 0 /\ cc4_map_cap(r.H, r.new_cntr) = 0

\* C18: clear invokes the key destructor and the element destructor exactly
\* once each on every live entry, sets the size to 0 and every bucket's probe
\* length to 0, and leaves the capacity and the handle unchanged (no buffer is
\* allocated or freed); on an empty or placeholder table it changes nothing.
C18_Clear ==
  \A tb \in Live : \A r \in {cc4_clear(heap, hnd[tb])} :
    /\ CallsOn(r.dtors, "key") = DtorCalls(heap, hnd[tb], "key_dtor", "key")
    /\ CallsOn(r.dtors, "el") = DtorCalls(heap, hnd[tb], "el_dtor", "el")
    /\ Len(r.dtors) = 2 * cc4_map_size(heap, hnd[tb])
    /\ cc4_map_size(r.H, r.new_cntr) = 0
    /\ Occupied(r.H, r.new_cntr) = {}
    /\ cc4_map_cap(r.H, r.new_cntr) = cc4_map_cap(heap, hnd[tb])
    /\ r.new_cntr = hnd[tb]
    /\ r.freed = <<>> /\ r.alloc = "none"
    /\ \A id \in DOMAIN heap : id # hnd[tb] => r.H[id] = heap[id]
    /\ cc4_map_size(heap, hnd[tb]) = 0 => r.H = heap /\ r.dtors = <<>>

\* a clear has emptied a table that held entries
C18_Witness ==
  /\ "m" \in Live
  /\ last.op = "clear" /\ last.dsize = -1
  /\ cc4_map_cap(heap, hnd["m"]) > 0
  /\ cc4_map_size(heap, hnd["m"]) = 0

(***************************************************************************)
(* Growth.                                                                 *)
(***************************************************************************)
\* the calls of insert and get_or_insert on table tb with key k and element
\* e, the allocator succeeding (ok) or failing
InsertCalls(tb, k, e, ok) ==
  {cc4_insert_3(heap, hnd[tb], k, e, ok), cc4_get_or_insert_3(heap, hnd[tb], k, e, ok)}

\* C19: an insert or get_or_insert of a key that is already present, made when
\* size + 1 > capacity * max load factor, still reserves size + 1 before the
\* probe walk.  When the allocation succeeds, the capacity grows through a
\* full rehash (a new buffer holding the same keys, the old one freed)
\* although the size does not change; when it fails, the call returns NULL
\* and the table is as before: the existing element is neither replaced nor
\* destroyed.
C19_ReinsertAtLoadLimit ==
  \A tb \in Live : \A k \in cfg.keys, e \in cfg.els :
    ( /\ Present(heap, hnd[tb], k)
      /\ ExceedsLoad(cc4_map_size(heap, hnd[tb]) + 1, cc4_map_cap(heap, hnd[tb]), cfg.max_load) ) =>
      /\ \A r \in InsertCalls(tb, k, e, TRUE) :
           /\ r.alloc = "ok" /\ r.other_ptr # NULL
           /\ r.new_cntr # hnd[tb] /\ r.freed = <<hnd[tb]>> /\ r.H[hnd[tb]] = FREE
           /\ cc4_map_cap(r.H, r.new_cntr) > cc4_map_cap(heap, hnd[tb])
           /\ cc4_map_size(r.H, r.new_cntr) = cc4_map_size(heap, hnd[tb])
           /\ {p[1] : p \in Pairs(r.H, r.new_cntr)} = {p[1] : p \in Pairs(heap, hnd[tb])}
      /\ \A r \in InsertCalls(tb, k, e, FALSE) :
           /\ r.alloc = "fail" /\ r.other_ptr = NULL
           /\ r.new_cntr = hnd[tb] /\ r.H = heap
           /\ r.dtors = <<>> /\ r.freed = <<>>
           /\ ElOf(r.H, r.new_cntr, k) = ElOf(heap, hnd[tb], k)

\* an insert of a key that was present has grown the table: the allocator was
\* called and the size is as before
C19_Witness ==
  /\ "m" \in Live
  /\ last.op \in {"insert", "get_or_insert"}
  /\ last.alloc = "ok" /\ last.dsize = 0 /\ last.ret
  /\ cc4_map_size(heap, hnd["m"]) >= 2

\* an insert or get_or_insert of any key that is not in the table at cntr,
\* made while its size is below n, succeeds without the allocator: no buffer
\* is allocated or freed, the handle and the capacity are as before, so that
\* r_end, end and the address of every bucket are as before, and every bucket
\* that held an element still holds one
FillStays(H, cntr, n) ==
  \A k \in cfg.keys, e \in cfg.els, ok \in BOOLEAN :
    (~Present(H, cntr, k) /\ cc4_map_size(H, cntr) < n) =>
      \A r \in {cc4_insert_3(H, cntr, k, e, ok), cc4_get_or_insert_3(H, cntr, k, e, ok)} :
        /\ r.other_ptr # NULL
        /\ r.alloc = "none" /\ r.freed = <<>>
        /\ r.new_cntr = cntr
        /\ cc4_map_cap(r.H, cntr) = cc4_map_cap(H, cntr)
        /\ cc4_map_size(r.H, cntr) = cc4_map_size(H, cntr) + 1
        /\ Occupied(H, cntr) \subseteq Occupied(r.H, cntr)
        /\ cc4_map_end(r.H, cntr, cfg.el_size, cfg.layout)
             = cc4_map_end(H, cntr, cfg.el_size, cfg.layout)

\* every pointer-iterator to an element of the table at cntr points to the
\* same key and element after an insert or get_or_insert of a key that is not
\* in the table, made while its size is below n
FillKeepsIterators(H, cntr, n) ==
  \A k \in cfg.keys, e \in cfg.els, ok \in BOOLEAN :
    (~Present(H, cntr, k) /\ cc4_map_size(H, cntr) < n) =>
      \A r \in {cc4_insert_3(H, cntr, k, e, ok), cc4_get_or_insert_3(H, cntr, k, e, ok)} :
        \A i \in Occupied(H, cntr) :
          /\ r.new_cntr = cntr
          /\ r.H[cntr].b[i].key = H[cntr].b[i].key
          /\ r.H[cntr].b[i].el = H[cntr].b[i].el

\* C20, as claimed: after reserve( n ) succeeds, n <= capacity * max load
\* factor, so inserting new keys until the size reaches n never changes the
\* capacity, never calls the allocator and never invalidates iterators: a
\* pointer-iterator to an element still points to that element.
C20_ReserveThenInsertKeepsIterators ==
  \A tb \in Live : \A n \in 0..MaxReserve :
    /\ \A r \in {cc4_reserve(heap, hnd[tb], n, TRUE)} :
         /\ r.other_ptr # NULL
         /\ ~ExceedsLoad(n, cc4_map_cap(r.H, r.new_cntr), cfg.max_load)
         /\ FillStays(r.H, r.new_cntr, n)
         /\ FillKeepsIterators(r.H, r.new_cntr, n)
    /\ ~ExceedsLoad(n, cc4_map_cap(heap, hnd[tb]), cfg.max_load) =>
         /\ FillStays(heap, hnd[tb], n)
         /\ FillKeepsIterators(heap, hnd[tb], n)

\* C20, amended: after reserve( n ) succeeds, n <= capacity * max load factor;
\* and while n <= capacity * max load factor, an insert of a new key into a
\* table of size below n changes neither the capacity nor the handle and does
\* not call the allocator, so that n stays within the unchanged capacity and
\* the same holds of the next insert, until the size reaches n.  The buffer is
\* not reallocated: r_end, end and the address of every bucket are as before,
\* and every bucket that held an element still holds one (which may be the
\* element of another key, moved there by the insert).
C20_ReserveThenInsert ==
  \A tb \in Live : \A n \in 0..MaxReserve :
    /\ \A r \in {cc4_reserve(heap, hnd[tb], n, TRUE)} :
         /\ r.other_ptr # NULL
         /\ ~ExceedsLoad(n, cc4_map_cap(r.H, r.new_cntr), cfg.max_load)
         /\ FillStays(r.H, r.new_cntr, n)
    /\ ~ExceedsLoad(n, cc4_map_cap(heap, hnd[tb]), cfg.max_load) =>
         FillStays(heap, hnd[tb], n)

\* a new key has been inserted without the allocator into a table whose
\* capacity, 16 buckets for a single element at max load factor 1/4, was
\* reserved ahead of its size
C20_Witness ==
  /\ "m" \in Live
  /\ cfg.max_load = <<1, 4>>
  /\ last.op = "insert" /\ last.alloc = "none" /\ last.dsize = 1
  /\ cc4_map_size(heap, hnd["m"]) = 1
  /\ cc4_map_cap(heap, hnd["m"]) = 16

(***************************************************************************)
(* Capacity policy.                                                        *)
(***************************************************************************)
\* C21: if the capacity is already >= min_capacity_for( n ) (that is, n = 0,
\* or the table is allocated and n <= capacity * max load factor), reserve( n )
\* returns success without calling the allocator or free and leaves the
\* handle, the capacity, the size and every bucket unchanged; and reserve
\* never reduces the capacity.
C21_ReserveNoOp ==
  \A tb \in Live : \A n \in 0..MaxReserve, ok \in BOOLEAN :
    \A r \in {cc4_reserve(heap, hnd[tb], n, ok)} :
      /\ ( \/ cc4_map_cap(heap, hnd[tb]) >= cc4_map_min_cap_for_n_els(n, cfg.max_load)
           \/ n = 0
           \/ /\ cc4_map_cap(heap, hnd[tb]) >= 8
              /\ ~ExceedsLoad(n, cc4_map_cap(heap, hnd[tb]), cfg.max_load) ) =>
           /\ r.other_ptr # NULL
           /\ r.alloc = "none" /\ r.freed = <<>>
           /\ r.new_cntr = hnd[tb]
           /\ r.H = heap
           /\ r.dtors = <<>>
      /\ r.new_cntr # NULLH
      /\ cc4_map_cap(r.H, r.new_cntr) >= cc4_map_cap(heap, hnd[tb])

\* a reserve has returned success without the allocator on a table that holds
\* entries
C21_Witness ==
  /\ "m" \in Live
  /\ last.op = "reserve" /\ last.ret /\ last.alloc = "none"
  /\ cc4_map_cap(heap, hnd["m"]) >= 8
  /\ cc4_map_size(heap, hnd["m"]) >= 1

\* cap is the smallest power of two >= 8 with n <= cap * max_load, or 0 when
\* n = 0
IsMinCap(cap, n, max_load) ==
  IF n = 0 THEN cap = 0
  ELSE /\ \E e \in 3..30 : cap = 2 ^ e
       /\ ~ExceedsLoad(n, cap, max_load)
       /\ cap > 8 => ExceedsLoad(n, cap \div 2, max_load)

\* C22: after a successful shrink the capacity equals
\* min_capacity_for( size, max load factor ) and is never larger than before
\* the call, the size and the set of ( key, element ) pairs are unchanged and
\* no destructor is invoked; if the size is 0 the buffer is freed and the
\* table becomes the placeholder (capacity 0).
C22_Shrink ==
  \A tb \in Live : \A ok \in BOOLEAN : \A r \in {cc4_shrink(heap, hnd[tb], ok)} :
    r.other_ptr # NULL =>
      /\ cc4_map_cap(r.H, r.new_cntr)
           = cc4_map_min_cap_for_n_els(cc4_map_size(heap, hnd[tb]), cfg.max_load)
      /\ IsMinCap(cc4_map_cap(r.H, r.new_cntr), cc4_map_size(heap, hnd[tb]), cfg.max_load)
      /\ cc4_map_cap(r.H, r.new_cntr) <= cc4_map_cap(heap, hnd[tb])
      /\ cc4_map_size(r.H, r.new_cntr) = cc4_map_size(heap, hnd[tb])
      /\ Pairs(r.H, r.new_cntr) = Pairs(heap, hnd[tb])
      /\ Cardinality(Occupied(r.H, r.new_cntr)) = cc4_map_size(heap, hnd[tb])
      /\ r.dtors = <<>>
      /\ cc4_map_size(heap, hnd[tb]) = 0 =>
           /\ r.new_cntr = PLACEHOLDER
           /\ cc4_map_cap(r.H, r.new_cntr) = 0
           /\ r.H[PLACEHOLDER] = cc4_map_placeholder
           /\ hnd[tb] # PLACEHOLDER => r.freed = <<hnd[tb]>> /\ r.H[hnd[tb]] = FREE

\* a shrink has rehashed a table that holds entries into a smaller buffer
C22_Witness ==
  /\ "m" \in Live
  /\ last.op = "shrink" /\ last.ret /\ last.alloc = "ok"
  /\ cc4_map_size(heap, hnd["m"]) >= 1
  /\ cc4_map_cap(heap, hnd["m"]) = 8

(***************************************************************************)
(* cc4_map_min_cap_for_n_els as a function of its arguments: cfg holds the *)
(* arguments and last the value returned.  A max load factor is a pair     *)
(* <<numerator, denominator>>; for these factors cap * max_load is either  *)
(* exact in a double or not an integer, so the comparison n > cap *        *)
(* max_load of the source is the comparison of the rationals.              *)
(***************************************************************************)
LoadFactors ==
  {<<1, 10>>, <<1, 4>>, <<1, 3>>, <<1, 2>>, <<3, 4>>, <<4, 5>>, <<9, 10>>, <<1, 1>>}

MinCapInit ==
  /\ cfg \in [n : 0..MaxN, max_load : LoadFactors]
  /\ hnd = [tb \in Tables |-> PLACEHOLDER]
  /\ heap = [id \in {PLACEHOLDER} \cup BufIds |-> IF id = PLACEHOLDER THEN cc4_map_placeholder ELSE FREE]
  /\ abs = [tb \in Tables |-> EmptyAbs]
  /\ only_inserts = [tb \in Tables |-> TRUE]
  /\ last = [op |-> "init", ret |-> 0, alloc |-> "none", dsize |-> 0]

MinCapCall ==
  /\ last.op = "init"
  /\ last' = [last EXCEPT !.op = "min_cap",
                          !.ret = cc4_map_min_cap_for_n_els(cfg.n, cfg.max_load)]
  /\ UNCHANGED <<cfg, hnd, heap, abs, only_inserts>>

SpecMinCap == MinCapInit /\ [][MinCapCall]_vars

\* C23: min_capacity_for( n, max load factor ) returns 0 when n = 0 and
\* otherwise the smallest power of two c >= 8 with n <= c * max load factor,
\* for every n in 0..MaxN and every max load factor of LoadFactors, all in
\* ( 0, 1 ].
C23_MinCap ==
  last.op = "min_cap" =>
    /\ cfg.n = 0 => last.ret = 0
    /\ IsMinCap(last.ret, cfg.n, cfg.max_load)
    /\ \A c \in 0..(last.ret - 1) :
         ~(cfg.n > 0 /\ c >= 8 /\ (\E e \in 3..30 : c = 2 ^ e) /\ ~ExceedsLoad(cfg.n, c, cfg.max_load))

\* the function has returned a capacity above 8 that holds n exactly at the
\* max load factor
C23_Witness ==
  /\ last.op = "min_cap"
  /\ last.ret > 8
  /\ cfg.n * cfg.max_load[2] = last.ret * cfg.max_load[1]



(***************************************************************************)
(* The int table: a map from int to int with the in-built hash function    *)
(* of int and the default max load factor, filled with the keys 0..7 in    *)
(* any order, each with the element key * 10, then read and erased at      *)
(* key 3.                                                                  *)
(***************************************************************************)
FillKeys == 0..7

\* cc4_hash_int: val * 2654435761ull, in 64 bits.  The table uses the hash
\* only through hash & ( cap - 1 ); the low 16 bits of the product are kept,
\* which decide the home bucket of every capacity up to 2^16, and
\* 2654435761 = 0x9E3779B1 has the low 16 bits 0x79B1 = 31153
cc4_hash_int(val) == (val * 31153) % (2 ^ 16)

HashInt == [k \in FillKeys |-> cc4_hash_int(k)]

FillConfig == Config(HashInt, CC4_DEFAULT_LOAD, FillKeys, {k * 10 : k \in FillKeys}, {"m"})

FillInit ==
  /\ cfg \in Configs \cup {FillConfig}
  /\ hnd = [tb \in Tables |-> PLACEHOLDER]
  /\ heap = [id \in {PLACEHOLDER} \cup BufIds |-> IF id = PLACEHOLDER THEN cc4_map_placeholder ELSE FREE]
  /\ abs = [tb \in Tables |-> EmptyAbs]
  /\ only_inserts = [tb \in Tables |-> TRUE]
  /\ last = [op |-> "init", ret |-> TRUE, alloc |-> "none", dsize |-> 0]

\* insert( &m, key, key * 10 ) of a key not yet inserted, the allocator succeeding
FillInsert(key) ==
  /\ only_inserts["m"]
  /\ key \notin DOMAIN abs["m"]
  /\ Insert("m", key, key * 10, TRUE)

\* get( &m, 3 )
FillGet == Get("m", 3)

\* erase( &m, 3 ) once the eight keys are in
FillErase ==
  /\ DOMAIN abs["m"] = FillKeys
  /\ Erase("m", 3)

FillNext ==
  \/ \E key \in FillKeys : FillInsert(key)
  \/ FillGet
  \/ FillErase

\* the int table runs its scenario, every other table any sequence of calls
FillOrNext ==
  \/ cfg = FillConfig /\ FillNext
  \/ cfg # FillConfig /\ Next

SpecFill == FillInit /\ [][FillOrNext]_vars

\* the capacity of a table after a call of insert, given what the call returned
CapAfter(r) == cc4_map_cap(r.H, r.new_cntr)

\* C24 (capacity policy of insert): a call of insert changes the capacity
\* exactly when size + 1 > capacity * max load factor holds before the call
\* and the allocation succeeds, and then to min_cap_for( size + 1 ); when the
\* allocation fails the capacity stays and the call returns NULL
InsertCapacityPolicy ==
  \A tb \in Live : \A key \in cfg.keys, el \in cfg.els, ok \in BOOLEAN :
    \A r \in {cc4_insert_3(heap, hnd[tb], key, el, ok)} :
      \A too_full \in {(cc4_map_size(heap, hnd[tb]) + 1) * cfg.max_load[2]
                         > cc4_map_cap(heap, hnd[tb]) * cfg.max_load[1]} :
        /\ r.new_cntr # NULLH
        /\ ok => (CapAfter(r) # cc4_map_cap(heap, hnd[tb]) <=> too_full)
        /\ (ok /\ too_full) =>
             /\ CapAfter(r) = cc4_map_min_cap_for_n_els(cc4_map_size(heap, hnd[tb]) + 1, cfg.max_load)
             /\ IsMinCap(CapAfter(r), cc4_map_size(heap, hnd[tb]) + 1, cfg.max_load)
        /\ ~ok => /\ CapAfter(r) = cc4_map_cap(heap, hnd[tb])
                  /\ (r.other_ptr = NULL <=> too_full)

\* C24 (the int table): the capacity is 8 after the 1st to 6th insert and
\* 16 from the 7th; with the keys 0..7 in, the capacity is 16 and the size 8,
\* get( 3 ) yields 30, erase( 3 ) returns true, and then get( 3 ) finds
\* nothing and the size is 7
FillScenario ==
  cfg = FillConfig =>
    /\ only_inserts["m"] =>
         /\ cc4_map_size(heap, hnd["m"]) = Cardinality(DOMAIN abs["m"])
         /\ cc4_map_size(heap, hnd["m"]) \in 1..6 => cc4_map_cap(heap, hnd["m"]) = 8
         /\ cc4_map_size(heap, hnd["m"]) >= 7 => cc4_map_cap(heap, hnd["m"]) = 16
    /\ (only_inserts["m"] /\ DOMAIN abs["m"] = FillKeys) =>
         /\ cc4_map_cap(heap, hnd["m"]) = 16
         /\ cc4_map_size(heap, hnd["m"]) = 8
         /\ cc4_get(heap, hnd["m"], 3).ret # NULL
         /\ ElAt(heap, cc4_get(heap, hnd["m"], 3).ret) = 30
         /\ \A e \in {cc4_erase(heap, hnd["m"], 3)} :
              /\ e.other_ptr # NULL
              /\ cc4_get(e.H, hnd["m"], 3).ret = NULL
              /\ cc4_map_size(e.H, hnd["m"]) = 7
    /\ ~only_inserts["m"] =>
         /\ last.op = "erase" => last.ret
         /\ cc4_get(heap, hnd["m"], 3).ret = NULL
         /\ cc4_map_size(heap, hnd["m"]) = 7
         /\ cc4_map_cap(heap, hnd["m"]) = 16

\* C24: insert grows the table exactly at the load limit, to the minimum
\* capacity for size + 1, and the int table grows from 8 to 16 buckets at
\* its 7th key and finds, erases and misses key 3
C24_InsertCapacity == InsertCapacityPolicy /\ FillScenario

\* the int table after the erase of key 3: seven keys in sixteen buckets
C24_Witness ==
  /\ "m" \in Live
  /\ cfg = FillConfig
  /\ last.op = "erase" /\ last.ret
  /\ cc4_map_size(heap, hnd["m"]) = 7
  /\ cc4_map_cap(heap, hnd["m"]) = 16


(***************************************************************************)
(* The pointer insert and get_or_insert return.                            *)
(***************************************************************************)
\* r.other_ptr is the el pointer of an occupied bucket of the table r.new_cntr
\* that holds key
Designates(r, key) ==
  /\ r.new_cntr # NULLH
  /\ \E i \in Occupied(r.H, r.new_cntr) :
       /\ r.other_ptr = cc4_map_el(r.new_cntr, i, cfg.el_size, cfg.layout)
       /\ r.H[r.new_cntr].b[i].key = key

\* the call stole the bucket of another key: the bucket r.other_ptr designates
\* held a different key before the call, in the same buffer
StoleBucket(tb, r, key) ==
  /\ r.new_cntr = hnd[tb]
  /\ \E i \in Occupied(heap, hnd[tb]) :
       /\ r.other_ptr = cc4_map_el(hnd[tb], i, cfg.el_size, cfg.layout)
       /\ heap[hnd[tb]].b[i].key # key

\* C25: the pointer a successful insert or get_or_insert returns designates,
\* in the table as the call leaves it, an occupied bucket whose key equals the
\* supplied key; for insert the bucket holds the supplied element, for
\* get_or_insert the element the key had, or the supplied one if it had none.
\* This covers the calls that displace other entries and the calls that rehash
C25_ReturnedBucket ==
  \A tb \in Live : \A key \in cfg.keys, el \in cfg.els, ok \in BOOLEAN :
    /\ \A r \in {cc4_insert_3(heap, hnd[tb], key, el, ok)} :
         r.other_ptr # NULL =>
           /\ Designates(r, key)
           /\ ElAt(r.H, r.other_ptr) = el
    /\ \A g \in {cc4_get_or_insert_3(heap, hnd[tb], key, el, ok)} :
         g.other_ptr # NULL =>
           /\ Designates(g, key)
           /\ ElAt(g.H, g.other_ptr) = IF Present(heap, hnd[tb], key)
                                       THEN ElOf(heap, hnd[tb], key) ELSE el

\* a table filled by an insert on which a further insert (and get_or_insert)
\* steals the bucket of another key, whose entry is displaced
C25_Witness ==
  /\ "m" \in Live
  /\ last.op \in {"insert", "get_or_insert"} /\ last.ret
  /\ \E key \in cfg.keys, el \in cfg.els :
       /\ StoleBucket("m", cc4_insert_3(heap, hnd["m"], key, el, TRUE), key)
       /\ StoleBucket("m", cc4_get_or_insert_3(heap, hnd["m"], key, el, TRUE), key)


(***************************************************************************)
(* init_clone.                                                             *)
(***************************************************************************)
\* what size, get and the two iterations return on the table cntr
Observed(H, cntr) ==
  [ size |-> cc4_map_size(H, cntr),
    gets |-> [k \in cfg.keys |-> cc4_get(H, cntr, k).ret],
    for_each |-> cc4_for_each_2(H, cntr, cfg.el_size, cfg.layout),
    r_for_each |-> cc4_r_for_each_2(H, cntr, cfg.el_size, cfg.layout) ]

\* the copy r of the table src: same capacity, size and buckets, in a buffer
\* of its own that was not allocated before, the source as it was
SameTable(H, src, r) ==
  /\ r.new_cntr \notin {NULLH, PLACEHOLDER, src}
  /\ H[r.new_cntr] = FREE
  /\ cc4_map_cap(r.H, r.new_cntr) = cc4_map_cap(H, src)
  /\ cc4_map_size(r.H, r.new_cntr) = cc4_map_size(H, src)
  /\ r.H[r.new_cntr].b = H[src].b
  /\ r.H[src] = H[src]
  /\ \A id \in DOMAIN H \ {r.new_cntr} : r.H[id] = H[id]
  /\ r.dtors = <<>> /\ r.freed = <<>>

\* insert, erase and cleanup on table a leave what table b returns as it was
CallsLeaveOther(a, b) ==
  /\ \A key \in cfg.keys, el \in cfg.els, ok \in BOOLEAN :
       Observed(cc4_insert_3(heap, hnd[a], key, el, ok).H, hnd[b]) = Observed(heap, hnd[b])
  /\ \A key \in cfg.keys :
       Observed(cc4_erase(heap, hnd[a], key).H, hnd[b]) = Observed(heap, hnd[b])
  /\ Observed(cc4_cleanup(heap, hnd[a]).H, hnd[b]) = Observed(heap, hnd[b])

\* C26 as stated: every successful init_clone gives the copy the capacity,
\* size and buckets of the source in a buffer of its own, and leaves the
\* source unchanged (the copy of the placeholder, which has no buffer, being
\* the placeholder)
C26_CloneSameCapacity ==
  \A src \in Live :
    \A r \in {cc4_init_clone(heap, hnd[src], TRUE)} :
      r.other_ptr # NULL =>
        \/ SameTable(heap, hnd[src], r)
        \/ hnd[src] = PLACEHOLDER /\ r.new_cntr = PLACEHOLDER /\ r.H = heap

\* C26 as amended: a successful init_clone of a source that holds at least one
\* entry gives the copy the capacity, size and buckets (keys, elements, probe
\* lengths) of the source, without rehashing, in a buffer of its own, and
\* leaves the source unchanged; of a source that holds no entry it gives the
\* placeholder, of capacity 0, and allocates nothing; in both cases later
\* inserts, erases or cleanup on one of the two tables never change what get,
\* size or iteration return on the other
C26_Clone ==
  /\ \A src \in Live :
       \A r \in {cc4_init_clone(heap, hnd[src], TRUE)} :
         /\ r.other_ptr # NULL
         /\ cc4_map_size(heap, hnd[src]) >= 1 => SameTable(heap, hnd[src], r) /\ r.alloc = "ok"
         /\ cc4_map_size(heap, hnd[src]) = 0 =>
              r.new_cntr = PLACEHOLDER /\ r.H = heap /\ r.alloc = "none"
  /\ \A a \in Live, b \in Live : a # b => CallsLeaveOther(a, b)

\* init_clone has just copied a table of at least one entry: two live tables
\* with the same entries in two buffers
C26_Witness ==
  /\ "m" \in Live /\ "c" \in Live
  /\ last.op = "init_clone" /\ last.ret /\ last.alloc = "ok"
  /\ hnd["m"] # hnd["c"]
  /\ cc4_map_size(heap, hnd["m"]) >= 1
  /\ heap[hnd["m"]].b = heap[hnd["c"]].b


\* C27: when the allocation fails in init_clone( dst, src ), the call returns
\* false, the source and every buffer are unchanged, and the handle stored
\* into dst is that of a valid table, the one dst had or the placeholder, on
\* which size, get, first and cleanup can be called: never a null handle
C27_CloneFailure ==
  \A src \in Live, dst \in cfg.tabs :
    (dst # src /\ hnd[dst] \in {PLACEHOLDER, NULLH}) =>
      \A r \in {cc4_init_clone(heap, hnd[src], FALSE)} :
        r.alloc = "fail" =>
          /\ r.other_ptr = NULL
          /\ r.H = heap
          /\ r.new_cntr # NULLH
          /\ r.new_cntr \in {hnd[dst], PLACEHOLDER}
          /\ r.H[r.new_cntr] # FREE


(***************************************************************************)
(* The default max load factor.  An int table without a CC4_LOAD of its    *)
(* own is grown a key at a time, keys 0, 1, 2, ... up to the 25th, and     *)
(* emptied from the last key back.                                         *)
(***************************************************************************)
LoadKeys == 0..24

LoadConfig == Config([k \in LoadKeys |-> cc4_hash_int(k)], CC4_DEFAULT_LOAD, LoadKeys, {10}, {"m"})

LoadInit ==
  /\ cfg = LoadConfig
  /\ hnd = [tb \in Tables |-> PLACEHOLDER]
  /\ heap = [id \in {PLACEHOLDER} \cup BufIds |-> IF id = PLACEHOLDER THEN cc4_map_placeholder ELSE FREE]
  /\ abs = [tb \in Tables |-> EmptyAbs]
  /\ only_inserts = [tb \in Tables |-> TRUE]
  /\ last = [op |-> "init", ret |-> TRUE, alloc |-> "none", dsize |-> 0]

\* insert( &m, size, 10 ): the next key
LoadPush ==
  /\ cc4_map_size(heap, hnd["m"]) \in LoadKeys
  /\ Insert("m", cc4_map_size(heap, hnd["m"]), 10, TRUE)

\* erase( &m, size - 1 ): the key inserted last
LoadPop ==
  /\ cc4_map_size(heap, hnd["m"]) >= 1
  /\ Erase("m", cc4_map_size(heap, hnd["m"]) - 1)

\* get( &m, key )
LoadGet == \E key \in {0, 24} : Get("m", key)

LoadNext == LoadPush \/ LoadPop \/ LoadGet

SpecLoad == LoadInit /\ [][LoadNext]_vars

\* C28: a table whose key type has no CC4_LOAD of its own uses the max load
\* factor 0.8: a call of insert (the allocator succeeding) changes the
\* capacity exactly when size + 1 > 0.8 * capacity, so that a table of
\* capacity 32 takes a 25th key without rehashing
C28_DefaultLoad ==
  cfg.max_load = CC4_DEFAULT_LOAD =>
    \A tb \in Live : \A key \in cfg.keys, el \in cfg.els :
      \A r \in {cc4_insert_3(heap, hnd[tb], key, el, TRUE)} :
        /\ r.other_ptr # NULL
        /\ CapAfter(r) # cc4_map_cap(heap, hnd[tb])
             <=> (cc4_map_size(heap, hnd[tb]) + 1) * 5 > 4 * cc4_map_cap(heap, hnd[tb])


(***************************************************************************)
(* The layout descriptor of a map, as a function of the sizes and          *)
(* alignments of the element and key types.  The alignments are the powers *)
(* of two that CC4_SATISFIES_LAYOUT_CONSTRAINTS admits.                    *)
(***************************************************************************)
Aligns == {1, 2, 4, 8, 16, 32, 64, 128, 256}

LayoutInit ==
  /\ cfg \in [el_size : 1..MaxLayoutSize, el_align : Aligns,
              key_size : 1..MaxLayoutSize, key_align : Aligns]
  /\ hnd = [tb \in Tables |-> PLACEHOLDER]
  /\ heap = [id \in {PLACEHOLDER} \cup BufIds |-> IF id = PLACEHOLDER THEN cc4_map_placeholder ELSE FREE]
  /\ abs = [tb \in Tables |-> EmptyAbs]
  /\ only_inserts = [tb \in Tables |-> TRUE]
  /\ last = [op |-> "init", ret |-> 0, alloc |-> "none", dsize |-> 0]

\* CC4_LAYOUT( cntr ): last.ret is the descriptor
LayoutCall ==
  /\ last.op = "init"
  /\ last' = [last EXCEPT !.op = "layout",
                          !.ret = cc4_layout(cfg.el_size, cfg.el_align, cfg.key_size, cfg.key_align)]
  /\ UNCHANGED <<cfg, hnd, heap, abs, only_inserts>>

SpecLayout == LayoutInit /\ [][LayoutCall]_vars

\* x is the smallest multiple of align that is >= n
SmallestMultiple(x, align, n) == x % align = 0 /\ x >= n /\ x - n < align

\* C29: for every element size and key size in the range and every power-of-
\* two element and key alignment up to 256, the key offset read from the
\* descriptor is the smallest multiple of the key alignment >= the element
\* size, the probe-length offset the smallest multiple of the alignment of the
\* probe length >= key offset + key size, the bucket size the smallest
\* multiple of the largest of the three alignments >= probe-length offset +
\* the size of the probe length, and each padding fits its 8-bit field
C29_Layout ==
  last.op = "layout" =>
    /\ SmallestMultiple(CC4_KEY_OFFSET(cfg.el_size, last.ret), cfg.key_align, cfg.el_size)
    /\ SmallestMultiple(CC4_PROBELEN_OFFSET(cfg.el_size, last.ret), ProbelenAlign,
                        CC4_KEY_OFFSET(cfg.el_size, last.ret) + cfg.key_size)
    /\ SmallestMultiple(CC4_BUCKET_SIZE(cfg.el_size, last.ret),
                        Max(cfg.el_align, Max(cfg.key_align, ProbelenAlign)),
                        CC4_PROBELEN_OFFSET(cfg.el_size, last.ret) + ProbelenSize)
    /\ CC4_KEY_SIZE(last.ret) = cfg.key_size
    /\ last.ret.el_pad \in 0..255
    /\ last.ret.key_pad \in 0..255
    /\ last.ret.pl_pad \in 0..255

\* a one-byte element before a key aligned to 256: the largest padding, 255,
\* and two more paddings that are not zero
C29_Witness ==
  /\ last.op = "layout"
  /\ cfg.key_align = 256
  /\ last.ret.el_pad = 255
  /\ last.ret.key_pad > 0
  /\ last.ret.pl_pad > 0


(***************************************************************************)
(* Probe lengths and home buckets.                                         *)
(***************************************************************************)
\* the bucket i of the table t, of probe length p >= 1, lies p - 1 buckets
\* after the home bucket of its key, counted around the end of the array
AtHomePlus(t, i) ==
  /\ t.b[i].probelen <= t.cap
  /\ cfg.hash[t.b[i].key] % t.cap = (i + t.cap - (t.b[i].probelen - 1)) % t.cap

\* C30: in every reachable state, each bucket with probe length p >= 1 at
\* index i holds a key whose home bucket hash( key ) & ( cap - 1 ) is
\* ( i - ( p - 1 ) ) mod cap, whether the entry wrapped around the end of the
\* array or was moved by a displacement, a backward shift or a rehash
C30_HomeSlot ==
  \A tb \in Live :
    \A i \in DOMAIN heap[hnd[tb]].b :
      heap[hnd[tb]].b[i].probelen >= 1 => AtHomePlus(heap[hnd[tb]], i)

\* an erase has just bumped entries backwards across the end of the array:
\* bucket 0 holds an entry whose home bucket is the last one
C30_Witness ==
  /\ "m" \in Live
  /\ last.op \in {"erase", "erase_itr"} /\ last.ret
  /\ cc4_map_cap(heap, hnd["m"]) >= 8
  /\ heap[hnd["m"]].b[0].probelen >= 2
  /\ heap[hnd["m"]].b[cc4_map_cap(heap, hnd["m"]) - 1].probelen = 1


(***************************************************************************)
(* Destructor calls of insert and erase.                                   *)
(***************************************************************************)
\* the bucket of table cntr that holds key
BucketOf(H, cntr, key) == CHOOSE i \in Occupied(H, cntr) : H[cntr].b[i].key = key

\* C31: a successful insert of a key that is in the table calls the key
\* destructor once on the stored key and the element destructor once on the
\* stored element, both as they were before the call, overwrites that entry
\* and leaves the size as it was (when the call does not rehash, the entry
\* stays in its bucket and no other bucket changes); get_or_insert calls no
\* destructor; insert calls none when it adds a key, displaces entries or
\* rehashes, nor when it fails
C31_InsertDtors ==
  \A tb \in Live : \A key \in cfg.keys, el \in cfg.els, ok \in BOOLEAN :
    /\ \A r \in {cc4_insert_3(heap, hnd[tb], key, el, ok)} :
         IF r.other_ptr # NULL /\ Present(heap, hnd[tb], key)
         THEN /\ r.dtors = << <<"key_dtor", "key", key>>,
                              <<"el_dtor", "el", ElOf(heap, hnd[tb], key)>> >>
              /\ cc4_map_size(r.H, r.new_cntr) = cc4_map_size(heap, hnd[tb])
              /\ ElAt(r.H, r.other_ptr) = el
              /\ r.new_cntr = hnd[tb] =>
                   /\ r.other_ptr = cc4_map_el(hnd[tb], BucketOf(heap, hnd[tb], key), cfg.el_size, cfg.layout)
                   /\ \A i \in DOMAIN heap[hnd[tb]].b :
                        i # BucketOf(heap, hnd[tb], key) => r.H[hnd[tb]].b[i] = heap[hnd[tb]].b[i]
         ELSE r.dtors = <<>>
    /\ \A g \in {cc4_get_or_insert_3(heap, hnd[tb], key, el, ok)} : g.dtors = <<>>

\* an insert has replaced the element of a stored key, in place and without
\* an allocation, in a table of three entries clustered at the end of the
\* array
C31_Witness ==
  /\ "m" \in Live
  /\ last.op = "insert" /\ last.ret /\ last.dsize = 0 /\ last.alloc = "none"
  /\ cfg.hash = HashClustered
  /\ cc4_map_size(heap, hnd["m"]) = 3
  /\ cc4_map_cap(heap, hnd["m"]) = 8


\* the number of entries that follow bucket i of the table t without a gap,
\* around the end of the array, each with a probe length > 1
RunAfter(t, i) ==
  CHOOSE m \in 0..(t.cap - 1) :
    /\ \A j \in 1..m : t.b[(i + j) % t.cap].probelen > 1
    /\ m = t.cap - 1 \/ t.b[(i + m + 1) % t.cap].probelen <= 1

\* the table new is the table old with the entry of bucket i erased: the run
\* after i has moved back one bucket with probe lengths one less, the last
\* bucket of the run is empty, every other bucket is as it was
ErasedAt(old, new, i) ==
  /\ new.cap = old.cap
  /\ new.size = old.size - 1
  /\ \A j \in 0..(RunAfter(old, i) - 1) :
       /\ new.b[(i + j) % old.cap].key = old.b[(i + j + 1) % old.cap].key
       /\ new.b[(i + j) % old.cap].el = old.b[(i + j + 1) % old.cap].el
       /\ new.b[(i + j) % old.cap].probelen = old.b[(i + j + 1) % old.cap].probelen - 1
  /\ new.b[(i + RunAfter(old, i)) % old.cap].probelen = 0
  /\ \A k \in DOMAIN old.b :
       (\A j \in 0..RunAfter(old, i) : k # (i + j) % old.cap) => new.b[k] = old.b[k]
  /\ Cardinality({k \in DOMAIN new.b : new.b[k].probelen # 0}) = new.size

\* C32: erase_itr, and erase of a key that is present, call the key
\* destructor and the element destructor once each on the erased entry and on
\* no other; the entries that follow it with probe length > 1 each move back
\* one bucket with the probe length one less, up to the first following bucket
\* whose probe length is <= 1; every other bucket is unchanged, and the
\* buckets with a probe length other than 0 are as many as the size says
C32_EraseShifts ==
  \A tb \in Live :
    /\ \A i \in Occupied(heap, hnd[tb]) :
         \A r \in {cc4_erase_itr(heap, hnd[tb], cc4_map_el(hnd[tb], i, cfg.el_size, cfg.layout))} :
           /\ r.dtors = << <<"key_dtor", "key", heap[hnd[tb]].b[i].key>>,
                           <<"el_dtor", "el", heap[hnd[tb]].b[i].el>> >>
           /\ r.new_cntr = hnd[tb]
           /\ ErasedAt(heap[hnd[tb]], r.H[hnd[tb]], i)
           /\ \A id \in DOMAIN heap \ {hnd[tb]} : r.H[id] = heap[id]
    /\ \A key \in cfg.keys :
         Present(heap, hnd[tb], key) =>
           \A e \in {cc4_erase(heap, hnd[tb], key)} :
             /\ e.dtors = << <<"key_dtor", "key", key>>,
                             <<"el_dtor", "el", ElOf(heap, hnd[tb], key)>> >>
             /\ ErasedAt(heap[hnd[tb]], e.H[hnd[tb]], BucketOf(heap, hnd[tb], key))

\* an erase has bumped two entries backwards and stopped before an entry
\* that is in its home bucket or before an empty bucket: buckets 7 and 0 of 8
\* hold the two entries, bucket 1 is empty
C32_Witness ==
  /\ "m" \in Live
  /\ last.op \in {"erase", "erase_itr"} /\ last.ret /\ last.dsize = -1
  /\ cfg.hash = HashConst
  /\ cc4_map_cap(heap, hnd["m"]) = 8
  /\ heap[hnd["m"]].b[7].probelen = 1
  /\ heap[hnd["m"]].b[0].probelen = 2
  /\ heap[hnd["m"]].b[1].probelen = 0


(***************************************************************************)
(* Rehashing.                                                              *)
(***************************************************************************)
\* capacities that a reserve( n ) or an insert (a larger one) or a shrink (the
\* minimum for the size) rehashes table tb to
RehashCaps(tb) ==
  {cap \in {8, 16, 32} :
     /\ ~ExceedsLoad(cc4_map_size(heap, hnd[tb]), cap, cfg.max_load)
     /\ \/ cap > cc4_map_cap(heap, hnd[tb])
        \/ /\ cap # cc4_map_cap(heap, hnd[tb])
           /\ cap = cc4_map_min_cap_for_n_els(cc4_map_size(heap, hnd[tb]), cfg.max_load)}

\* a hash function under which a rehash displaces: keys 1 and 2 share home
\* bucket 14 of 16 (6 of 8), the other keys have home bucket 15 (7 of 8), so
\* that in 8 buckets key 3 wraps around to bucket 0 behind keys 1 and 2 and
\* is the first entry a rehash re-inserts
HashPair == [k \in Keys |-> IF k <= 2 THEN 14 ELSE 15]

RehashConfig == Config(HashPair, CC4_DEFAULT_LOAD, Keys, {10}, {"m"})

RehashInit ==
  /\ cfg = RehashConfig
  /\ hnd = [tb \in Tables |-> PLACEHOLDER]
  /\ heap = [id \in {PLACEHOLDER} \cup BufIds |-> IF id = PLACEHOLDER THEN cc4_map_placeholder ELSE FREE]
  /\ abs = [tb \in Tables |-> EmptyAbs]
  /\ only_inserts = [tb \in Tables |-> TRUE]
  /\ last = [op |-> "init", ret |-> TRUE, alloc |-> "none", dsize |-> 0]

\* the calls that rehash, and erase, on the one table; reserve is called with
\* counts that need 16 buckets
RehashNext ==
  \/ \E key \in cfg.keys, el \in cfg.els, ok \in BOOLEAN : Insert("m", key, el, ok)
  \/ \E key \in cfg.keys : Erase("m", key)
  \/ \E n \in 0..MaxGrowReserve, ok \in BOOLEAN : Reserve("m", n, ok)
  \/ \E ok \in BOOLEAN : Shrink("m", ok)

SpecRehash == RehashInit /\ [][RehashNext]_vars

\* C33: while a rehash populates the new storage, the old bucket array is not
\* written: when cc4_map_make_rehash returns, every bucket of the old array
\* holds the key, element and probe length it held before
C33_OldArrayUntouched ==
  \A tb \in Live : \A cap \in RehashCaps(tb) :
    \A r \in {cc4_map_make_rehash(heap, hnd[tb], cap, cfg.hash, TRUE)} :
      r.H[hnd[tb]] = heap[hnd[tb]]


\* C34: on every reachable table that has an empty bucket, for every key that
\* is not in it, cc4_map_insert_raw_unique leaves the same bucket array and
\* size and returns the same bucket as cc4_map_insert_raw (with either value
\* of replace), and writes the same values back through its el and key
\* pointers; and a rehash re-inserts every live entry once: the new table has
\* the size and the ( key, element ) pairs of the old one, one bucket each
C34_UniqueInsert ==
  \A tb \in Live :
    /\ cc4_map_size(heap, hnd[tb]) < cc4_map_cap(heap, hnd[tb]) =>
         \A key \in cfg.keys, el \in cfg.els, replace \in BOOLEAN :
           ~Present(heap, hnd[tb], key) =>
             \A u \in {cc4_map_insert_raw_unique(heap[hnd[tb]], el, key, cfg.hash)} :
             \A g \in {cc4_map_insert_raw(heap[hnd[tb]], el, key, replace, cfg.hash, "el_dtor", "key_dtor")} :
               /\ u.t = g.t
               /\ u.ret = g.ret
               /\ u.key = g.key /\ u.el = g.el
               /\ g.dtors = <<>>
    /\ \A cap \in RehashCaps(tb) :
         \A r \in {cc4_map_make_rehash(heap, hnd[tb], cap, cfg.hash, TRUE)} :
           /\ cc4_map_cap(r.H, r.new_cntr) = cap
           /\ cc4_map_size(r.H, r.new_cntr) = cc4_map_size(heap, hnd[tb])
           /\ Cardinality(Occupied(r.H, r.new_cntr)) = cc4_map_size(heap, hnd[tb])
           /\ Pairs(r.H, r.new_cntr) = Pairs(heap, hnd[tb])

\* a reserve has rehashed three entries from 8 into 16 buckets, the last one
\* re-inserted displacing the first: key 3, which followed keys 1 and 2
\* around the end of the array, does so again
C34_Witness ==
  /\ "m" \in Live
  /\ last.op = "reserve" /\ last.ret /\ last.alloc = "ok"
  /\ cfg.hash = HashPair
  /\ cc4_map_cap(heap, hnd["m"]) = 16
  /\ cc4_map_size(heap, hnd["m"]) = 3
  /\ heap[hnd["m"]].b[0].probelen = 2


(***************************************************************************)
(* Full tables: the max load factor 1.0, under which a table of capacity 8 *)
(* holds 8 entries, with a constant hash function and with one that sends  *)
(* the keys to buckets 6 and 7 in turn.  The keys of a table are          *)
(* consecutive: the next key is inserted, the smallest or largest erased.  *)
(***************************************************************************)
FullKeys == 1..9

HashFull == [k \in FullKeys |-> 7]
HashTurns == [k \in FullKeys |-> 6 + (k % 2)]

FullConfigs == { Config(h, <<1, 1>>, FullKeys, {10}, {"m"}) : h \in {HashFull, HashTurns} }

FullInit ==
  /\ cfg \in FullConfigs
  /\ hnd = [tb \in Tables |-> PLACEHOLDER]
  /\ heap = [id \in {PLACEHOLDER} \cup BufIds |-> IF id = PLACEHOLDER THEN cc4_map_placeholder ELSE FREE]
  /\ abs = [tb \in Tables |-> EmptyAbs]
  /\ only_inserts = [tb \in Tables |-> TRUE]
  /\ last = [op |-> "init", ret |-> TRUE, alloc |-> "none", dsize |-> 0]

\* the key is in the table or is the next one: 1 for an empty table, else
\* the largest key of the table plus 1
InOrNext(key) ==
  \/ key \in DOMAIN abs["m"]
  \/ DOMAIN abs["m"] = {} /\ key = 1
  \/ key - 1 \in DOMAIN abs["m"] /\ \A k \in DOMAIN abs["m"] : k < key

\* insert( &m, key, 10 ) of a key in the table or of the next key
FullInsert(key, ok) ==
  /\ InOrNext(key)
  /\ Insert("m", key, 10, ok)

\* the key is not between two keys of the table
AtAnEnd(key) ==
  \/ \A k \in DOMAIN abs["m"] : k <= key
  \/ \A k \in DOMAIN abs["m"] : k >= key

\* erase( &m, key ) of the smallest or the largest key, or of a key not in the table
FullErase(key) ==
  /\ AtAnEnd(key)
  /\ Erase("m", key)

\* erase_itr( &m, itr ) of the bucket of the smallest or the largest key
FullEraseItr(i) ==
  /\ i \in Occupied(heap, hnd["m"])
  /\ AtAnEnd(heap[hnd["m"]].b[i].key)
  /\ EraseItr("m", i)

FullNext ==
  \/ \E key \in FullKeys, ok \in BOOLEAN : FullInsert(key, ok)
  \/ \E key \in FullKeys : Get("m", key)
  \/ \E key \in FullKeys : FullErase(key)
  \/ \E i \in 0..15 : FullEraseItr(i)
  \/ ForEach("m")

SpecFull == FullInit /\ [][FullNext]_vars

\* the largest probe length stored in a table, 0 if it is empty
MaxProbelen(t) ==
  IF \A i \in DOMAIN t.b : t.b[i].probelen = 0 THEN 0
  ELSE CHOOSE m \in {t.b[i].probelen : i \in DOMAIN t.b} : \A i \in DOMAIN t.b : t.b[i].probelen <= m

\* C35: on every reachable table, full ones included, get( key ) of every key,
\* present or not, compares keys in at most M buckets and reads the probe
\* length of at most M + 1 buckets, M being the largest probe length stored
C35_GetProbes ==
  \A tb \in Live : \A key \in cfg.keys :
    \A g \in {cc4_get(heap, hnd[tb], key)} :
      /\ g.cmps <= MaxProbelen(heap[hnd[tb]])
      /\ g.reads <= MaxProbelen(heap[hnd[tb]]) + 1

\* a get has missed in a full table of 8 buckets whose entries all have the
\* home bucket 7: the key 9 is compared with 8 keys, and the 9th probe length
\* read, that of bucket 7 again, ends the loop
C35_Witness ==
  /\ "m" \in Live
  /\ last.op = "get" /\ ~last.ret
  /\ cfg.hash = HashFull
  /\ cc4_map_cap(heap, hnd["m"]) = 8
  /\ cc4_map_size(heap, hnd["m"]) = 8
  /\ cc4_get(heap, hnd["m"], 9).cmps = 8
  /\ cc4_get(heap, hnd["m"], 9).reads = 9


(***************************************************************************)
(* Termination.  The while( true ) loops of cc4_map_insert_raw and         *)
(* cc4_map_erase_itr have no bound of their own: they end when they meet   *)
(* an empty bucket, or an entry in its home bucket.  Their iterations are  *)
(* counted here, up to MaxIters.                                           *)
(***************************************************************************)
RECURSIVE InsertRawInnerIters(_, _, _, _)
\* the inner while( true ) loop of cc4_map_insert_raw: n plus the number of
\* times it moves on to the next bucket before it finds an empty one
InsertRawInnerIters(t, i, probelen, n) ==
  IF Probelen(t, i) = 0 \/ n >= MaxIters THEN n
  ELSE IF probelen > Probelen(t, i)
       THEN InsertRawInnerIters([t EXCEPT !.b[i].probelen = probelen],
                                NextIndex(i, t.cap), t.b[i].probelen + 1, n + 1)
       ELSE InsertRawInnerIters(t, NextIndex(i, t.cap), probelen + 1, n + 1)

RECURSIVE InsertRawIters(_, _, _, _, _)
\* the outer while( true ) loop of cc4_map_insert_raw: the number of times
\* the two loops move on to the next bucket before the function returns
InsertRawIters(t, i, probelen, key, n) ==
  IF probelen > Probelen(t, i) THEN InsertRawInnerIters(t, i, probelen, n)
  ELSE IF (probelen = Probelen(t, i) /\ cmpr(t.b[i].key, key) = 0) \/ n >= MaxIters THEN n
       ELSE InsertRawIters(t, NextIndex(i, t.cap), probelen + 1, key, n + 1)

RECURSIVE EraseShiftIters_until_empty(_, _, _)
\* variant: the loop stops at an empty bucket only
EraseShiftIters_until_empty(t, i, n) ==
  LET next == NextIndex(i, t.cap) IN
  IF Probelen(t, next) = 0 \/ n >= MaxIters THEN n
  ELSE EraseShiftIters_until_empty(
         [t EXCEPT !.b[i] = Bucket(t.b[next].key, t.b[next].el, t.b[next].probelen - 1),
                   !.b[next] = EmptyBucket], next, n + 1)

RECURSIVE EraseShiftIters(_, _, _)
\* the while( true ) loop of cc4_map_erase_itr, bucket i of t having been
\* emptied: n plus the number of entries it bumps backwards
EraseShiftIters(t, i, n) ==
  LET next == NextIndex(i, t.cap) IN
  IF Probelen(t, next) <= 1 \/ n >= MaxIters THEN n
  ELSE EraseShiftIters(
         [t EXCEPT !.b[i] = Bucket(t.b[next].key, t.b[next].el, t.b[next].probelen - 1),
                   !.b[next] = EmptyBucket], next, n + 1)

\* what cc4_map_insert hands to cc4_map_insert_raw: the table as it is when
\* there is room, else the table cc4_map_reserve returns
InsertRawArg(H, cntr, max_load, hash, ok) ==
  IF ExceedsLoad(cc4_map_size(H, cntr) + 1, cc4_map_cap(H, cntr), max_load)
  THEN cc4_map_reserve(H, cntr, cc4_map_size(H, cntr) + 1, hash, max_load, ok)
  ELSE Result(H, cntr, cc4_dummy_true_ptr, <<>>, <<>>, "none", 0)

\* C36: every call terminates on every reachable table, full tables and a
\* constant hash function included.  get and erase read at most cap + 1 probe
\* lengths; erase_itr bumps at most cap - 1 entries backwards; insert and
\* get_or_insert either fail in reserve or hand cc4_map_insert_raw a table
\* with an empty bucket, which its loops reach after moving on at most
\* cap - 1 times; reserve, shrink and clear return; the walks from first by
\* next and from last by prev reach end and r_end within cap + 1 steps
C36_Terminates ==
  \A tb \in Live :
    \A t \in {heap[hnd[tb]]} :
      /\ \A key \in cfg.keys :
           /\ cc4_get(heap, hnd[tb], key).reads <= t.cap + 1
           /\ cc4_erase(heap, hnd[tb], key).reads <= t.cap + 1
           /\ \A ok \in BOOLEAN :
                \A r \in {InsertRawArg(heap, hnd[tb], cfg.max_load, cfg.hash, ok)} :
                  /\ r.other_ptr = NULL =>
                       /\ ~ok
                       /\ cc4_insert_3(heap, hnd[tb], key, 10, ok).other_ptr = NULL
                       /\ cc4_get_or_insert_3(heap, hnd[tb], key, 10, ok).other_ptr = NULL
                  /\ r.other_ptr # NULL =>
                       \A u \in {r.H[r.new_cntr]} :
                         /\ u.size < u.cap
                         /\ InsertRawIters(u, HomeIndex(cfg.hash[key], u.cap), 1, key, 0) <= u.cap - 1
                         /\ cc4_insert_3(heap, hnd[tb], key, 10, ok).other_ptr # NULL
                         /\ cc4_get_or_insert_3(heap, hnd[tb], key, 10, ok).other_ptr # NULL
      /\ \A i \in Occupied(heap, hnd[tb]) :
           /\ EraseShiftIters([t EXCEPT !.b[i] = EmptyBucket, !.size = @ - 1], i, 0) <= t.cap - 1
           /\ cc4_erase_itr(heap, hnd[tb], cc4_map_el(hnd[tb], i, cfg.el_size, cfg.layout)).other_ptr # NULL
      /\ \A n \in {0, t.size, t.cap + 1} :
           cc4_map_size(cc4_reserve(heap, hnd[tb], n, TRUE).H, cc4_reserve(heap, hnd[tb], n, TRUE).new_cntr) = t.size
      /\ cc4_map_size(cc4_shrink(heap, hnd[tb], TRUE).H, cc4_shrink(heap, hnd[tb], TRUE).new_cntr) = t.size
      /\ cc4_map_size(cc4_clear(heap, hnd[tb]).H, hnd[tb]) = 0
      /\ Len(cc4_for_each_2(heap, hnd[tb], cfg.el_size, cfg.layout)) <= t.cap + 1
      /\ Len(cc4_r_for_each_2(heap, hnd[tb], cfg.el_size, cfg.layout)) <= t.cap + 1

\* an insert has put the 8th entry into the only empty bucket of a table of
\* capacity 8 whose entries all have the same home bucket: the table is full
C36_Witness ==
  /\ "m" \in Live
  /\ last.op = "insert" /\ last.ret /\ last.alloc = "none" /\ last.dsize = 1
  /\ cfg.hash = HashFull
  /\ cc4_map_cap(heap, hnd["m"]) = 8
  /\ cc4_map_size(heap, hnd["m"]) = 8


(***************************************************************************)
(* The header.                                                             *)
(***************************************************************************)
\* C37: in every reachable state the size field of every table is the number
\* of its buckets with a non-zero probe length, its capacity is 0 (the
\* placeholder) or a power of two that is at least 8, and its bucket array
\* has capacity buckets
C37_Header ==
  \A tb \in Live :
    /\ cc4_map_size(heap, hnd[tb]) = Cardinality(Occupied(heap, hnd[tb]))
    /\ \/ cc4_map_cap(heap, hnd[tb]) = 0 /\ hnd[tb] = PLACEHOLDER
       \/ \E k \in 3..30 : cc4_map_cap(heap, hnd[tb]) = 2 ^ k
    /\ DOMAIN heap[hnd[tb]].b = 0..(cc4_map_cap(heap, hnd[tb]) - 1)

\* an erase_itr has taken one of three entries out of a table of 8 buckets
C37_Witness ==
  /\ "m" \in Live
  /\ last.op = "erase_itr" /\ last.ret /\ last.dsize = -1
  /\ cc4_map_cap(heap, hnd["m"]) = 8
  /\ cc4_map_size(heap, hnd["m"]) = 2
  /\ Cardinality(Occupied(heap, hnd["m"])) = 2


\* C38: in every reachable state no two occupied buckets of a table hold
\* keys that compare equal
C38_UniqueKeys ==
  \A tb \in Live :
    \A i \in Occupied(heap, hnd[tb]), j \in Occupied(heap, hnd[tb]) :
      i # j => cmpr(heap[hnd[tb]].b[i].key, heap[hnd[tb]].b[j].key) # 0

\* a get_or_insert has found its key in a table of two entries and has added
\* nothing
C38_Witness ==
  /\ "m" \in Live
  /\ last.op = "get_or_insert" /\ last.ret /\ last.dsize = 0 /\ last.alloc = "none"
  /\ cc4_map_size(heap, hnd["m"]) = 2
  /\ Cardinality({heap[hnd["m"]].b[i].key : i \in Occupied(heap, hnd["m"])}) = 2


(***************************************************************************)
(* Buffers.                                                                *)
(***************************************************************************)
\* what the calls that may allocate or free return on table tb
BufferCalls(tb) ==
  { cc4_insert_3(heap, hnd[tb], key, el, ok) : key \in cfg.keys, el \in cfg.els, ok \in BOOLEAN }
  \cup { cc4_get_or_insert_3(heap, hnd[tb], key, el, ok) : key \in cfg.keys, el \in cfg.els, ok \in BOOLEAN }
  \cup { cc4_reserve(heap, hnd[tb], n, ok) : n \in 0..MaxReserve, ok \in BOOLEAN }
  \cup { cc4_shrink(heap, hnd[tb], ok) : ok \in BOOLEAN }
  \cup { cc4_cleanup(heap, hnd[tb]) }

\* what the calls that neither allocate nor free return on table tb
OtherCalls(tb) ==
  { cc4_erase(heap, hnd[tb], key) : key \in cfg.keys }
  \cup { cc4_erase_itr(heap, hnd[tb], cc4_map_el(hnd[tb], i, cfg.el_size, cfg.layout)) :
           i \in Occupied(heap, hnd[tb]) }
  \cup { cc4_clear(heap, hnd[tb]) }

\* C39: in every reachable state the placeholder is as it was defined, no
\* handle designates a freed buffer, and every buffer that is allocated is
\* the buffer of exactly one table; and no call frees the placeholder or
\* writes it, a call frees at most the buffer its table had, which it had
\* not freed before and no longer uses (a successful rehash of a table with
\* a buffer, a shrink of an empty table and a cleanup free it, other calls
\* free nothing), a failed allocation frees nothing and changes nothing, and
\* no call frees or writes the buffer of another table
C39_Buffers ==
  /\ heap[PLACEHOLDER] = cc4_map_placeholder
  /\ \A tb \in Live : heap[hnd[tb]] # FREE
  /\ \A id \in BufIds :
       heap[id] # FREE => Cardinality({tb \in Live : hnd[tb] = id}) = 1
  /\ \A tb \in Live :
       /\ \A r \in BufferCalls(tb) :
            /\ r.H[PLACEHOLDER] = cc4_map_placeholder
            /\ r.freed \in {<<>>, <<hnd[tb]>>}
            /\ r.freed # <<>> =>
                 /\ hnd[tb] # PLACEHOLDER
                 /\ r.H[hnd[tb]] = FREE
                 /\ r.new_cntr # hnd[tb]
            /\ r.freed = <<>> /\ r.new_cntr # hnd[tb] => hnd[tb] = PLACEHOLDER
            /\ r.new_cntr # NULLH /\ r.H[r.new_cntr] # FREE
            /\ r.alloc = "fail" =>
                 /\ r.freed = <<>> /\ r.H = heap /\ r.new_cntr = hnd[tb]
                 /\ r.other_ptr = NULL
            /\ r.alloc = "ok" =>
                 /\ heap[r.new_cntr] = FREE
                 /\ hnd[tb] # PLACEHOLDER => r.freed = <<hnd[tb]>>
            /\ \A id \in BufIds \ {hnd[tb], r.new_cntr} : r.H[id] = heap[id]
       /\ \A r \in OtherCalls(tb) :
            /\ r.freed = <<>> /\ r.alloc = "none" /\ r.new_cntr = hnd[tb]
            /\ \A id \in ({PLACEHOLDER} \cup BufIds) \ {hnd[tb]} : r.H[id] = heap[id]
            /\ r.H[PLACEHOLDER] = cc4_map_placeholder
       /\ \A r \in {cc4_shrink(heap, hnd[tb], TRUE)} :
            cc4_map_size(heap, hnd[tb]) = 0 /\ hnd[tb] # PLACEHOLDER =>
              r.freed = <<hnd[tb]>> /\ r.new_cntr = PLACEHOLDER /\ r.alloc = "none"
       /\ \A r \in {cc4_cleanup(heap, hnd[tb])} :
            hnd[tb] # PLACEHOLDER => r.freed = <<hnd[tb]>> /\ r.new_cntr = PLACEHOLDER
       /\ \A ok \in BOOLEAN : \A r \in {cc4_init_clone(heap, hnd[tb], ok)} :
            /\ r.freed = <<>>
            /\ r.H[PLACEHOLDER] = cc4_map_placeholder
            /\ r.H[hnd[tb]] = heap[hnd[tb]]
            /\ ~ok => r.H = heap

\* a shrink has rehashed a table of two entries from 16 into 8 buckets and
\* freed the buffer of 16: one buffer is allocated, that of the table
C39_Witness ==
  /\ "m" \in Live
  /\ last.op = "shrink" /\ last.ret /\ last.alloc = "ok"
  /\ cc4_map_cap(heap, hnd["m"]) = 8
  /\ cc4_map_size(heap, hnd["m"]) = 2
  /\ Cardinality({id \in BufIds : heap[id] # FREE}) = 1


(***************************************************************************)
(* Refinement of a finite map.  abs[tb] is the map the caller has built:   *)
(* insert puts, get_or_insert puts if absent, erase and erase_itr delete,  *)
(* clear and cleanup empty it, reserve and shrink leave it.                *)
(***************************************************************************)
\* the ( key, element ) pairs of the map a
AbsPairs(a) == {<<k, a[k]>> : k \in DOMAIN a}

\* the ( key, element ) pairs at the pointer-iterators of the sequence w
WalkPairs(H, w) == {<<KeyAt(H, w[n]), ElAt(H, w[n])>> : n \in DOMAIN w}

\* C40: after any sequence of insert, get_or_insert, erase, erase_itr,
\* reserve, shrink, clear and cleanup, allocations succeeding or failing,
\* every table refines the map abs: get( k ) returns the element abs has
\* for k and NULL exactly when abs has none, the size is the number of keys
\* of abs, and the for_each walk visits as many pointer-iterators as abs has
\* keys, each the element of an occupied bucket, which together hold
\* exactly the entries of abs
C40_RefinesMap ==
  \A tb \in Live :
    /\ cc4_map_size(heap, hnd[tb]) = Cardinality(DOMAIN abs[tb])
    /\ \A k \in cfg.keys :
         \A p \in {cc4_get(heap, hnd[tb], k).ret} :
           IF k \in DOMAIN abs[tb]
           THEN p # NULL /\ KeyAt(heap, p) = k /\ ElAt(heap, p) = abs[tb][k]
           ELSE p = NULL
    /\ \A w \in {cc4_for_each_2(heap, hnd[tb], cfg.el_size, cfg.layout)} :
         /\ Len(w) = Cardinality(DOMAIN abs[tb])
         /\ \A n \in DOMAIN w :
              \E i \in Occupied(heap, hnd[tb]) : w[n] = cc4_map_el(hnd[tb], i, cfg.el_size, cfg.layout)
         /\ WalkPairs(heap, w) = AbsPairs(abs[tb])

====
